---------------------------- MODULE Spec2Model ----------------------------
(***************************************************************************)
(* Model of the task dependency scheduler (codex_agent/dag/engine.py,     *)
(* class TaskDAG) over the task records of codex_agent/core/models.py.    *)
(*                                                                         *)
(* Python dicts keep insertion order, and two of the three dicts of       *)
(* TaskDAG are iterated (tasks, _reverse_adjacency), so they are modelled *)
(* as sequences: tasks is the sequence of task records in dict order,     *)
(* reverse_adjacency the sequence of [k, v] entries in dict order.        *)
(* _adjacency_list is only ever indexed, never iterated, and is a         *)
(* function whose DOMAIN is the set of keys the dict holds.  Both         *)
(* adjacency dicts are defaultdict(list): indexing a missing key stores   *)
(* an empty list under it (Touch, RevTouch).                               *)
(*                                                                         *)
(* The lifecycle state machine (codex_agent/core/orchestrator.py, class   *)
(* Orchestrator) is a second object with fields of its own; the two       *)
(* objects do not call each other.                                         *)
(*                                                                         *)
(* Neither object synchronises: a call is one step of the model when one  *)
(* thread makes it with no other call in progress.  The specifications of *)
(* concurrent use split add_task and transition into the steps between    *)
(* which another thread can run, each thread with its position in pc, and *)
(* take a mutex of the embedding system (lock) where the discipline of    *)
(* the specification asks for it.                                          *)
(***************************************************************************)
EXTENDS Integers, Sequences, FiniteSets, TLC

VARIABLES
    tasks,              \* TaskDAG.tasks: dict id -> Task, in dict order
    adjacency_list,     \* TaskDAG._adjacency_list: dependency id -> dependents
    reverse_adjacency,  \* TaskDAG._reverse_adjacency: task id -> dependencies
    last,               \* the last call: operation, argument, exception, return
    todo,               \* driver of SpecInsert: the task records still to insert
    current_state,      \* Orchestrator.current_state
    previous_state,     \* Orchestrator.previous_state, NoState for None
    transition_history, \* Orchestrator.transition_history: list of StateTransition
    current_task,       \* Orchestrator.current_task: the task's id, "" for None
    pc,                 \* per thread: the position inside the call it is making
    lock                \* the mutex of the embedding system: its holder, or free

vars == <<tasks, adjacency_list, reverse_adjacency, last, todo,
          current_state, previous_state, transition_history, current_task, pc, lock>>

\* the fields of the TaskDAG object and the driver of SpecInsert
graph == <<tasks, adjacency_list, reverse_adjacency, todo>>

\* the fields of the Orchestrator object
machine == <<current_state, previous_state, transition_history, current_task>>

\* the threads of the embedding system and its mutex
workers == <<pc, lock>>

---------------------------------------------------------------------------
(* Bounds of the model.                                                    *)

TaskIds == {"t1", "t2", "t3"}

\* longest dependency list of an inserted task
MaxDeps == 2

\* AddTask is taken only while the forward index holds at most this many entries
MaxEdges == 3

\* priorities are drawn from 1..MaxPriority, creation timestamps from 1..MaxTime
MaxPriority == 2

MaxTime == 2

\* Transition is taken only while the history holds fewer records than this
MaxHistory == 7

\* the trigger arguments of transition(); "manual" is the default
Triggers == {"manual", "test"}

\* a trigger other than the default is passed only while the history holds
\* fewer than this many records with such a trigger
MaxNamed == 1

\* the caller edits a list it was handed at most MaxEdits times
MaxEdits == 2

\* concurrent transition calls pass the check only while the records of the
\* history and the calls on their way to appending one are fewer than this
MaxRaceHistory == 4

---------------------------------------------------------------------------
(* TaskStatus (models.py) and the Task fields the graph reads.             *)

PENDING == "pending"

RUNNING == "running"

COMPLETED == "completed"

FAILED == "failed"

BLOCKED == "blocked"

SKIPPED == "skipped"

TaskStatus == {PENDING, RUNNING, COMPLETED, FAILED, BLOCKED, SKIPPED}

\* dependency lists: up to MaxDeps distinct ids, in any order
DepLists ==
    {s \in UNION {[1..n -> TaskIds] : n \in 0..MaxDeps} :
        \A i, j \in 1..Len(s) : i # j => s[i] # s[j]}

\* Task.Config sets use_enum_values: a status passed to the constructor is
\* stored as the plain string of the member, while the default and a status
\* assigned later stay TaskStatus members.  The two compare and hash equal;
\* status_is_str tells which one the record holds.
Task == [id : TaskIds, dependencies : DepLists, status : TaskStatus,
         status_is_str : BOOLEAN, priority : 1..MaxPriority, created_at : 1..MaxTime]

NoTask == [id |-> "", dependencies |-> <<>>, status |-> "", status_is_str |-> FALSE,
           priority |-> 0, created_at |-> 0]

---------------------------------------------------------------------------
(* Python list and dict primitives.                                        *)

Range(s) == {s[i] : i \in 1..Len(s)}

\* x in s
Contains(s, x) == \E i \in 1..Len(s) : s[i] = x

\* list.remove(x): drops the first occurrence of x
ListRemove(s, x) ==
    LET i == CHOOSE j \in 1..Len(s) : s[j] = x /\ \A k \in 1..(j - 1) : s[k] # x
    IN  SubSeq(s, 1, i - 1) \o SubSeq(s, i + 1, Len(s))

\* task_id in self.tasks
HasTask(ts, id) == \E i \in 1..Len(ts) : ts[i].id = id

\* self.tasks[task_id]
TaskOf(ts, id) == ts[CHOOSE i \in 1..Len(ts) : ts[i].id = id]

TaskIdSet(ts) == {ts[i].id : i \in 1..Len(ts)}

IdsOf(ts) == [i \in 1..Len(ts) |-> ts[i].id]

\* self.tasks[task.id] = task: a present key keeps its place, a new one goes last
TaskPut(ts, task) ==
    IF HasTask(ts, task.id)
    THEN [i \in 1..Len(ts) |-> IF ts[i].id = task.id THEN task ELSE ts[i]]
    ELSE Append(ts, task)

\* del self.tasks[task_id]
TaskDel(ts, id) == SelectSeq(ts, LAMBDA t : t.id # id)

\* self._adjacency_list[k] of a defaultdict(list): a missing key is stored as []
Touch(adj, k) == IF k \in DOMAIN adj THEN adj ELSE adj @@ (k :> <<>>)

\* del self._adjacency_list[k]
AdjDel(adj, k) == [x \in DOMAIN adj \ {k} |-> adj[x]]

RevHas(rev, k) == \E i \in 1..Len(rev) : rev[i].k = k

RevKeys(rev) == {rev[i].k : i \in 1..Len(rev)}

RevGet(rev, k) == rev[CHOOSE i \in 1..Len(rev) : rev[i].k = k].v

\* self._reverse_adjacency[k] of a defaultdict(list)
RevTouch(rev, k) == IF RevHas(rev, k) THEN rev ELSE Append(rev, [k |-> k, v |-> <<>>])

RevSet(rev, k, val) ==
    [i \in 1..Len(rev) |-> IF rev[i].k = k THEN [k |-> k, v |-> val] ELSE rev[i]]

RevDel(rev, k) == SelectSeq(rev, LAMBDA e : e.k # k)

\* number of entries of the forward index
EdgeCount(adj) ==
    LET RECURSIVE Sum(_)
        Sum(S) == IF S = {} THEN 0
                  ELSE LET k == CHOOSE x \in S : TRUE IN Len(adj[k]) + Sum(S \ {k})
    IN  Sum(DOMAIN adj)

\* the graph object as one value
Graph(ts, adj, rev) == [tasks |-> ts, adjacency_list |-> adj, reverse_adjacency |-> rev]

G == Graph(tasks, adjacency_list, reverse_adjacency)

---------------------------------------------------------------------------
(* TaskDAG._has_cycle: depth-first search over _adjacency_list from every  *)
(* stored task.  st = [visited, rec_stack, adj, found]; adj carries the    *)
(* keys the defaultdict reads store.                                       *)

RECURSIVE dfs(_, _)
RECURSIVE dfs_loop(_, _, _)

dfs(st, task_id) ==
    dfs_loop([visited   |-> st.visited \cup {task_id},
              rec_stack |-> st.rec_stack \cup {task_id},
              adj       |-> Touch(st.adj, task_id),
              found     |-> FALSE], task_id, 1)

dfs_loop(st, task_id, i) ==
    IF i > Len(st.adj[task_id])
    THEN [st EXCEPT !.rec_stack = @ \ {task_id}]
    ELSE LET dependent_id == st.adj[task_id][i]
         IN  IF dependent_id \notin st.visited
             THEN LET r == dfs(st, dependent_id)
                  IN  IF r.found THEN r ELSE dfs_loop(r, task_id, i + 1)
             ELSE IF dependent_id \in st.rec_stack
                  THEN [st EXCEPT !.found = TRUE]
                  ELSE dfs_loop(st, task_id, i + 1)

RECURSIVE has_cycle_loop(_, _, _)

has_cycle_loop(ts, st, i) ==
    IF i > Len(ts) THEN st
    ELSE IF ts[i].id \notin st.visited
         THEN LET r == dfs(st, ts[i].id)
              IN  IF r.found THEN r ELSE has_cycle_loop(ts, r, i + 1)
         ELSE has_cycle_loop(ts, st, i + 1)

\* the search of lines 235-238 started from the first stored task alone
has_cycle_first_root(g) ==
    LET st == [visited |-> {}, rec_stack |-> {}, adj |-> g.adjacency_list, found |-> FALSE]
    IN  IF g.tasks = <<>> THEN st ELSE dfs(st, g.tasks[1].id)

\* [found |-> the verdict, adj |-> _adjacency_list after the search]
has_cycle(g) ==
    has_cycle_loop(g.tasks,
                   [visited |-> {}, rec_stack |-> {}, adj |-> g.adjacency_list,
                    found |-> FALSE], 1)

---------------------------------------------------------------------------
(* TaskDAG.add_task                                                        *)

RECURSIVE add_edges(_, _, _)

\* the loop of lines 55-59 from the i-th dependency on
add_edges(g, task, i) ==
    IF i > Len(task.dependencies) THEN g
    ELSE LET dep_id == task.dependencies[i]
             adj    == Touch(g.adjacency_list, dep_id)
             rev    == RevTouch(g.reverse_adjacency, task.id)
         IN  add_edges(Graph(g.tasks,
                             [adj EXCEPT ![dep_id] = Append(@, task.id)],
                             RevSet(rev, task.id, Append(RevGet(rev, task.id), dep_id))),
                       task, i + 1)

\* the warnings of lines 49-50 and 56-57; a dependency is looked up after the
\* task itself is stored, so a task that lists itself does not warn
add_task_warnings(g, task) ==
    (IF HasTask(g.tasks, task.id) THEN {"replacing"} ELSE {})
        \cup (IF \E i \in 1..Len(task.dependencies) :
                    ~HasTask(TaskPut(g.tasks, task), task.dependencies[i])
              THEN {"unknown dependency"} ELSE {})

\* [g |-> the graph after the call, raised |-> "" or the exception]
add_task(g, task) ==
    LET g1 == add_edges(Graph(TaskPut(g.tasks, task), g.adjacency_list,
                              g.reverse_adjacency), task, 1)
        c  == has_cycle(g1)
    IN  IF c.found
        THEN [g |-> Graph(TaskDel(g1.tasks, task.id), c.adj, g1.reverse_adjacency),
              raised |-> "DAGCycleError"]
        ELSE [g |-> Graph(g1.tasks, c.adj, g1.reverse_adjacency), raised |-> ""]

---------------------------------------------------------------------------
(* TaskDAG.remove_task                                                     *)

RECURSIVE remove_forward(_, _, _, _)

\* lines 81-83: the task leaves the forward list of each of its dependencies
remove_forward(adj, deps, task_id, i) ==
    IF i > Len(deps) THEN adj
    ELSE LET a == Touch(adj, deps[i])
         IN  remove_forward(IF Contains(a[deps[i]], task_id)
                            THEN [a EXCEPT ![deps[i]] = ListRemove(@, task_id)]
                            ELSE a,
                            deps, task_id, i + 1)

RECURSIVE remove_reverse(_, _, _, _)

\* lines 86-88: the task leaves the reverse list of each of its dependents
remove_reverse(rev, dependents, task_id, i) ==
    IF i > Len(dependents) THEN rev
    ELSE LET r == RevTouch(rev, dependents[i])
         IN  remove_reverse(IF Contains(RevGet(r, dependents[i]), task_id)
                            THEN RevSet(r, dependents[i],
                                        ListRemove(RevGet(r, dependents[i]), task_id))
                            ELSE r,
                            dependents, task_id, i + 1)

\* remove_task without line 90: the record stays stored
remove_task_keeps_record(g, task_id) ==
    IF ~HasTask(g.tasks, task_id) THEN g
    ELSE LET task == TaskOf(g.tasks, task_id)
             adj1 == remove_forward(g.adjacency_list, task.dependencies, task_id, 1)
             adj2 == Touch(adj1, task_id)
             rev1 == remove_reverse(g.reverse_adjacency, adj2[task_id], task_id, 1)
         IN  Graph(g.tasks, AdjDel(adj2, task_id), RevDel(rev1, task_id))

\* remove_task without the early return of lines 74-76: an id that is not
\* stored still loses its entries in both indexes (lines 91-94)
remove_task_without_guard(g, task_id) ==
    IF ~HasTask(g.tasks, task_id)
    THEN Graph(g.tasks, AdjDel(g.adjacency_list, task_id),
               RevDel(g.reverse_adjacency, task_id))
    ELSE LET task == TaskOf(g.tasks, task_id)
             adj1 == remove_forward(g.adjacency_list, task.dependencies, task_id, 1)
             adj2 == Touch(adj1, task_id)
             rev1 == remove_reverse(g.reverse_adjacency, adj2[task_id], task_id, 1)
         IN  Graph(TaskDel(g.tasks, task_id), AdjDel(adj2, task_id), RevDel(rev1, task_id))

remove_task(g, task_id) ==
    IF ~HasTask(g.tasks, task_id) THEN g
    ELSE LET task == TaskOf(g.tasks, task_id)
             adj1 == remove_forward(g.adjacency_list, task.dependencies, task_id, 1)
             adj2 == Touch(adj1, task_id)
             rev1 == remove_reverse(g.reverse_adjacency, adj2[task_id], task_id, 1)
         IN  Graph(TaskDel(g.tasks, task_id), AdjDel(adj2, task_id), RevDel(rev1, task_id))

---------------------------------------------------------------------------
(* TaskDAG.get_task, get_task_dependencies, get_task_dependents            *)

\* the task record, or NoTask for None
get_task(g, task_id) ==
    IF HasTask(g.tasks, task_id) THEN TaskOf(g.tasks, task_id) ELSE NoTask

\* ids of the returned tasks
get_task_dependencies(g, task_id) ==
    IF ~HasTask(g.tasks, task_id) THEN <<>>
    ELSE SelectSeq(TaskOf(g.tasks, task_id).dependencies, LAMBDA d : HasTask(g.tasks, d))

\* ids of the returned tasks (the read also stores the key: Touch)
get_task_dependents(g, task_id) ==
    SelectSeq(Touch(g.adjacency_list, task_id)[task_id], LAMBDA d : HasTask(g.tasks, d))

---------------------------------------------------------------------------
(* TaskDAG.get_ready_tasks, get_next_task                                  *)

\* the sort key without the creation timestamp
KeyLess_priority_only(a, b) == a.priority < b.priority

\* the sort key of line 133, compared as Python compares tuples
KeyLess(a, b) ==
    \/ a.priority < b.priority
    \/ a.priority = b.priority /\ a.created_at < b.created_at

\* list.sort is stable: an element goes before the first one that is greater
SortInsert(sorted, t) ==
    LET later == {j \in 1..Len(sorted) : KeyLess(t, sorted[j])}
        pos   == IF later = {} THEN Len(sorted) + 1
                 ELSE CHOOSE j \in later : \A k \in later : j <= k
    IN  SubSeq(sorted, 1, pos - 1) \o <<t>> \o SubSeq(sorted, pos, Len(sorted))

RECURSIVE StableSort(_)

StableSort(s) ==
    IF s = <<>> THEN <<>>
    ELSE SortInsert(StableSort(SubSeq(s, 1, Len(s) - 1)), s[Len(s)])

\* lines 123-127 without the filter "if dep_id in self.tasks": an absent
\* dependency counts as not completed
deps_completed_strict(ts, task) ==
    \A i \in 1..Len(task.dependencies) :
        /\ HasTask(ts, task.dependencies[i])
        /\ TaskOf(ts, task.dependencies[i]).status = COMPLETED

\* lines 123-127 with any() for all(): some stored dependency is completed
deps_completed_any(ts, task) ==
    \E i \in 1..Len(task.dependencies) :
        /\ HasTask(ts, task.dependencies[i])
        /\ TaskOf(ts, task.dependencies[i]).status = COMPLETED

\* lines 123-127 with a failed dependency counted as done
deps_finished(ts, task) ==
    \A i \in 1..Len(task.dependencies) :
        HasTask(ts, task.dependencies[i])
            => TaskOf(ts, task.dependencies[i]).status \in {COMPLETED, FAILED}

\* lines 123-127: all(... for dep_id in task.dependencies if dep_id in self.tasks)
deps_completed(ts, task) ==
    \A i \in 1..Len(task.dependencies) :
        HasTask(ts, task.dependencies[i])
            => TaskOf(ts, task.dependencies[i]).status = COMPLETED

\* the returned task records, in the returned order
ready_tasks(g) ==
    StableSort(SelectSeq(g.tasks,
                         LAMBDA t : t.status = PENDING /\ deps_completed(g.tasks, t)))

\* ids of the returned tasks
get_ready_tasks(g) == IdsOf(ready_tasks(g))

\* the id of the returned task as a list of length one, or the empty list for None
get_next_task(g) ==
    LET ready == get_ready_tasks(g)
    IN  IF ready # <<>> THEN <<ready[1]>> ELSE <<>>

---------------------------------------------------------------------------
(* TaskDAG.get_blocked_tasks                                               *)

\* lines 162-166 with all() for any()
has_failed_dep_all(ts, task) ==
    \A i \in 1..Len(task.dependencies) :
        HasTask(ts, task.dependencies[i])
            => TaskOf(ts, task.dependencies[i]).status = FAILED

\* lines 162-166 looking at the first dependency alone
has_failed_dep_first(ts, task) ==
    /\ task.dependencies # <<>>
    /\ HasTask(ts, task.dependencies[1])
    /\ TaskOf(ts, task.dependencies[1]).status = FAILED

\* lines 162-166: any(... for dep_id in task.dependencies if dep_id in self.tasks)
has_failed_dep(ts, task) ==
    \E i \in 1..Len(task.dependencies) :
        /\ HasTask(ts, task.dependencies[i])
        /\ TaskOf(ts, task.dependencies[i]).status = FAILED

RECURSIVE blocked_loop_skips_completed_only(_, _, _)

\* the loop with line 158 testing for COMPLETED alone
blocked_loop_skips_completed_only(ts, blocked, i) ==
    IF i > Len(ts) THEN [tasks |-> ts, result |-> blocked]
    ELSE IF ts[i].status = COMPLETED
         THEN blocked_loop_skips_completed_only(ts, blocked, i + 1)
         ELSE IF \E k \in 1..Len(ts[i].dependencies) :
                    /\ HasTask(ts, ts[i].dependencies[k])
                    /\ TaskOf(ts, ts[i].dependencies[k]).status = FAILED
              THEN blocked_loop_skips_completed_only([ts EXCEPT ![i].status = BLOCKED,
                                                                 ![i].status_is_str = FALSE],
                                                     Append(blocked, ts[i].id), i + 1)
              ELSE blocked_loop_skips_completed_only(ts, blocked, i + 1)

RECURSIVE blocked_loop(_, _, _)

\* the loop of lines 157-170 from the i-th stored task on; a status written for
\* one task is what the later iterations read
blocked_loop(ts, blocked, i) ==
    IF i > Len(ts) THEN [tasks |-> ts, result |-> blocked]
    ELSE IF ts[i].status \in {COMPLETED, FAILED, SKIPPED}
         THEN blocked_loop(ts, blocked, i + 1)
         ELSE IF has_failed_dep(ts, ts[i])
              THEN blocked_loop([ts EXCEPT ![i].status = BLOCKED,
                                              ![i].status_is_str = FALSE],
                                Append(blocked, ts[i].id), i + 1)
              ELSE blocked_loop(ts, blocked, i + 1)

\* get_blocked_tasks recomputing the classification: a blocked task that has
\* no failed dependency is set back to pending
get_blocked_tasks_recomputes(g) ==
    LET r == blocked_loop(g.tasks, <<>>, 1)
    IN  [tasks  |-> [i \in 1..Len(r.tasks) |->
                        IF r.tasks[i].status = BLOCKED /\ ~has_failed_dep(r.tasks, r.tasks[i])
                        THEN [r.tasks[i] EXCEPT !.status = PENDING, !.status_is_str = FALSE]
                        ELSE r.tasks[i]],
         result |-> r.result]

\* [tasks |-> self.tasks after the call, result |-> ids of the returned tasks]
get_blocked_tasks(g) == blocked_loop(g.tasks, <<>>, 1)

---------------------------------------------------------------------------
(* TaskDAG.topological_sort: Kahn's algorithm.                             *)
(* st = [in_degree, queue, result, adj, raised]                            *)

\* keys of in_degree in dict order: line 185, then lines 188-190
in_degree_keys(g) ==
    [i \in 1..Len(g.reverse_adjacency) |-> g.reverse_adjacency[i].k]
        \o SelectSeq(IdsOf(g.tasks), LAMBDA id : ~RevHas(g.reverse_adjacency, id))

in_degree_init(g) ==
    [k \in RevKeys(g.reverse_adjacency) \cup TaskIdSet(g.tasks) |->
        IF RevHas(g.reverse_adjacency, k) THEN Len(RevGet(g.reverse_adjacency, k)) ELSE 0]

RECURSIVE kahn_inner(_, _, _)

\* lines 201-204 from the i-th dependent on
kahn_inner(st, task_id, i) ==
    IF i > Len(st.adj[task_id]) THEN st
    ELSE LET dependent_id == st.adj[task_id][i]
         IN  IF dependent_id \notin DOMAIN st.in_degree
             THEN [st EXCEPT !.raised = "KeyError"]
             ELSE LET d == st.in_degree[dependent_id] - 1
                  IN  kahn_inner([st EXCEPT !.in_degree[dependent_id] = d,
                                            !.queue = IF d = 0 THEN Append(@, dependent_id)
                                                      ELSE @],
                                 task_id, i + 1)

RECURSIVE kahn(_, _)

\* lines 196-204
kahn(ts, st) ==
    IF st.queue = <<>> THEN st
    ELSE LET task_id == Head(st.queue)
         IN  IF ~HasTask(ts, task_id)
             THEN [st EXCEPT !.queue = Tail(@), !.raised = "KeyError"]
             ELSE LET r == kahn_inner([st EXCEPT !.queue = Tail(@),
                                                 !.result = Append(@, task_id),
                                                 !.adj = Touch(@, task_id)],
                                      task_id, 1)
                  IN  IF r.raised # "" THEN r ELSE kahn(ts, r)

\* [raised |-> "" or the exception, result |-> ids of the returned tasks,
\*  adj |-> _adjacency_list after the call]
topological_sort(g) ==
    LET deg == in_degree_init(g)
        st  == kahn(g.tasks,
                    [in_degree |-> deg,
                     queue     |-> SelectSeq(in_degree_keys(g), LAMBDA k : deg[k] = 0),
                     result    |-> <<>>,
                     adj       |-> g.adjacency_list,
                     raised    |-> ""])
    IN  IF st.raised # "" THEN [raised |-> st.raised, result |-> <<>>, adj |-> st.adj]
        ELSE IF Len(st.result) # Len(g.tasks)
             THEN [raised |-> "DAGCycleError", result |-> <<>>, adj |-> st.adj]
             ELSE [raised |-> "", result |-> st.result, adj |-> st.adj]

---------------------------------------------------------------------------
(* TaskDAG.validate, get_progress, is_complete                             *)

\* a finding is the tuple of its message's parts
CycleFinding == <<"DAG contains a cycle">>

UnreachableFinding == <<"Some tasks are unreachable">>

\* f"Task {task.id} depends on non-existent task {dep_id}"
MissingFinding(task_id, dep_id) == <<"depends on non-existent task", task_id, dep_id>>

RECURSIVE missing_deps(_, _, _)

\* lines 296-299: the findings of the i-th stored task from its k-th dependency on
missing_deps(ts, i, k) ==
    IF i > Len(ts) THEN <<>>
    ELSE IF k > Len(ts[i].dependencies) THEN missing_deps(ts, i + 1, 1)
         ELSE (IF ~HasTask(ts, ts[i].dependencies[k])
               THEN <<MissingFinding(ts[i].id, ts[i].dependencies[k])>>
               ELSE <<>>) \o missing_deps(ts, i, k + 1)

\* [raised |-> "" or the exception that escapes, errors |-> the returned list,
\*  adj |-> _adjacency_list after the call]
validate(g) ==
    LET c  == has_cycle(g)
        e1 == IF c.found THEN <<CycleFinding>> ELSE <<>>
        e2 == e1 \o missing_deps(g.tasks, 1, 1)
        r  == topological_sort([g EXCEPT !.adjacency_list = c.adj])
    IN  IF r.raised = "DAGCycleError" THEN [raised |-> "", errors |-> e2, adj |-> r.adj]
        ELSE IF r.raised # "" THEN [raised |-> r.raised, errors |-> <<>>, adj |-> r.adj]
             ELSE [raised |-> "",
                   errors |-> IF Len(r.result) # Len(g.tasks)
                              THEN Append(e2, UnreachableFinding) ELSE e2,
                   adj |-> r.adj]

\* the counter a status adds to; a plain string has no attribute "value"
\* (line 273), so the call raises AttributeError at the first such record
RECURSIVE progress_loop(_, _, _)

progress_loop(ts, stats, i) ==
    IF i > Len(ts) THEN [raised |-> "", stats |-> stats]
    ELSE IF ts[i].status_is_str THEN [raised |-> "AttributeError", stats |-> stats]
         ELSE progress_loop(ts, [stats EXCEPT ![ts[i].status] = @ + 1], i + 1)

\* [raised |-> "" or the exception, stats |-> the returned dict]
get_progress(g) ==
    progress_loop(g.tasks,
                  [k \in TaskStatus \cup {"total"} |->
                      IF k = "total" THEN Len(g.tasks) ELSE 0], 1)

\* is_complete with BLOCKED among the terminal states
is_complete_blocked_terminal(g) ==
    \A i \in 1..Len(g.tasks) : g.tasks[i].status \in {COMPLETED, FAILED, SKIPPED, BLOCKED}

\* lines 279-280; a member and its plain string compare and hash equal
is_complete(g) ==
    \A i \in 1..Len(g.tasks) : g.tasks[i].status \in {COMPLETED, FAILED, SKIPPED}

---------------------------------------------------------------------------
(* The calls as actions.  last records the call just made.                 *)

RetId(op, id, raised, result, warned) ==
    [op |-> op, id |-> id, raised |-> raised, result |-> result, warned |-> warned]

\* the record of a transition call, which has the trigger as second argument
RetTransition(to_state, trigger, raised, result) ==
    [op |-> "transition", id |-> to_state, trigger |-> trigger, raised |-> raised,
     result |-> result, warned |-> {}]

\* the record of a get_transition_history call and of the caller's edits of
\* the list it returned
RetHistory(op, list, shares, edits) ==
    [op |-> op, id |-> "", raised |-> "", result |-> list, warned |-> {},
     shares |-> shares, edits |-> edits]

SetGraph(g) ==
    /\ tasks' = g.tasks
    /\ adjacency_list' = g.adjacency_list
    /\ reverse_adjacency' = g.reverse_adjacency

\* dag.add_task(task)
AddTask(task) ==
    /\ EdgeCount(adjacency_list) + Len(task.dependencies) <= MaxEdges
    /\ LET r == add_task(G, task)
       IN  SetGraph(r.g) /\ last' = RetId("add_task", task.id, r.raised, <<>>,
                                         add_task_warnings(G, task))
    /\ UNCHANGED <<todo, machine, workers>>

\* dag.remove_task(task_id)
RemoveTask(task_id) ==
    /\ SetGraph(remove_task(G, task_id))
    /\ last' = RetId("remove_task", task_id, "", <<>>,
                     IF HasTask(tasks, task_id) THEN {} ELSE {"not found"})
    /\ UNCHANGED <<todo, machine, workers>>

\* dag.topological_sort()
TopologicalSort ==
    /\ LET r == topological_sort(G)
       IN  /\ adjacency_list' = r.adj
           /\ last' = RetId("topological_sort", "", r.raised, r.result, {})
    /\ UNCHANGED <<tasks, reverse_adjacency, todo, machine, workers>>

\* dag.get_ready_tasks()
GetReadyTasks ==
    /\ last' = RetId("get_ready_tasks", "", "", get_ready_tasks(G), {})
    /\ UNCHANGED <<tasks, adjacency_list, reverse_adjacency, todo, machine, workers>>

\* dag.get_next_task()
GetNextTask ==
    /\ last' = RetId("get_next_task", "", "", get_next_task(G), {})
    /\ UNCHANGED <<tasks, adjacency_list, reverse_adjacency, todo, machine, workers>>

\* dag.get_blocked_tasks()
GetBlockedTasks ==
    /\ LET r == get_blocked_tasks(G)
       IN  tasks' = r.tasks /\ last' = RetId("get_blocked_tasks", "", "", r.result, {})
    /\ UNCHANGED <<adjacency_list, reverse_adjacency, todo, machine, workers>>

\* the driver's write dag.get_task(task_id).status = TaskStatus.X (test_dag.py:100);
\* the write of the status the record already holds stores the member too
SetStatus(task_id, status) ==
    /\ HasTask(tasks, task_id)
    /\ tasks' = [i \in 1..Len(tasks) |->
                    IF tasks[i].id = task_id
                    THEN [tasks[i] EXCEPT !.status = status, !.status_is_str = FALSE]
                    ELSE tasks[i]]
    /\ last' = RetId("set_status", task_id, "", <<>>, {})
    /\ UNCHANGED <<adjacency_list, reverse_adjacency, todo, machine, workers>>

\* dag.validate(); an exception that escapes leaves no return value
Validate ==
    /\ LET r == validate(G)
       IN  /\ adjacency_list' = r.adj
           /\ last' = RetId("validate", "", r.raised, r.errors, {})
    /\ UNCHANGED <<tasks, reverse_adjacency, todo, machine, workers>>

\* dag.get_progress(); result holds the returned dict
GetProgress ==
    /\ LET r == get_progress(G)
       IN  last' = RetId("get_progress", "", r.raised,
                         IF r.raised = "" THEN r.stats ELSE <<>>, {})
    /\ UNCHANGED <<tasks, adjacency_list, reverse_adjacency, todo, machine, workers>>

\* dag.is_complete(); result holds the returned boolean
IsComplete ==
    /\ last' = RetId("is_complete", "", "", is_complete(G), {})
    /\ UNCHANGED <<tasks, adjacency_list, reverse_adjacency, todo, machine, workers>>

\* dag.get_task_dependents(task_id); the subscript of line 252 stores the key
\* in the forward index when the index has none
GetTaskDependents(task_id) ==
    /\ adjacency_list' = Touch(adjacency_list, task_id)
    /\ last' = RetId("get_task_dependents", task_id, "", get_task_dependents(G, task_id), {})
    /\ UNCHANGED <<tasks, reverse_adjacency, todo, machine, workers>>

\* TaskDAG.__init__
InitGraph ==
    /\ tasks = <<>>
    /\ adjacency_list = <<>>
    /\ reverse_adjacency = <<>>
    /\ last = RetId("init", "", "", <<>>, {})

---------------------------------------------------------------------------
(* LifecycleState (models.py) and Orchestrator (orchestrator.py).  A       *)
(* StateTransition is modelled by the fields the machine sets from its    *)
(* own state and arguments: from_state, to_state, trigger.                 *)

IDLE == "IDLE"

PLANNING == "PLANNING"

SCAFFOLDING == "SCAFFOLDING"

BUILDING == "BUILDING"

VERIFYING == "VERIFYING"

DEPLOYING == "DEPLOYING"

OBSERVING == "OBSERVING"

MAINTAINING == "MAINTAINING"

\* LifecycleState.FAILED (FAILED is TaskStatus.FAILED)
STATE_FAILED == "FAILED"

LifecycleState ==
    {IDLE, PLANNING, SCAFFOLDING, BUILDING, VERIFYING, DEPLOYING, OBSERVING, MAINTAINING,
     STATE_FAILED}

\* previous_state = None
NoState == "None"

\* the table with BUILDING also allowed from IDLE
TRANSITIONS_idle_to_building ==
    (IDLE :> <<PLANNING, BUILDING>>)
        @@ (PLANNING :> <<SCAFFOLDING, STATE_FAILED>>)
        @@ (SCAFFOLDING :> <<BUILDING, STATE_FAILED>>)
        @@ (BUILDING :> <<VERIFYING, STATE_FAILED>>)
        @@ (VERIFYING :> <<DEPLOYING, BUILDING, STATE_FAILED>>)
        @@ (DEPLOYING :> <<OBSERVING, STATE_FAILED>>)
        @@ (OBSERVING :> <<MAINTAINING, IDLE>>)
        @@ (MAINTAINING :> <<BUILDING, OBSERVING, IDLE, STATE_FAILED>>)
        @@ (STATE_FAILED :> <<IDLE>>)

\* the table without the way out of FAILED
TRANSITIONS_failed_is_final ==
    (IDLE :> <<PLANNING>>)
        @@ (PLANNING :> <<SCAFFOLDING, STATE_FAILED>>)
        @@ (SCAFFOLDING :> <<BUILDING, STATE_FAILED>>)
        @@ (BUILDING :> <<VERIFYING, STATE_FAILED>>)
        @@ (VERIFYING :> <<DEPLOYING, BUILDING, STATE_FAILED>>)
        @@ (DEPLOYING :> <<OBSERVING, STATE_FAILED>>)
        @@ (OBSERVING :> <<MAINTAINING, IDLE>>)
        @@ (MAINTAINING :> <<BUILDING, OBSERVING, IDLE, STATE_FAILED>>)
        @@ (STATE_FAILED :> <<>>)

\* Orchestrator.TRANSITIONS
TRANSITIONS ==
    (IDLE :> <<PLANNING>>)
        @@ (PLANNING :> <<SCAFFOLDING, STATE_FAILED>>)
        @@ (SCAFFOLDING :> <<BUILDING, STATE_FAILED>>)
        @@ (BUILDING :> <<VERIFYING, STATE_FAILED>>)
        @@ (VERIFYING :> <<DEPLOYING, BUILDING, STATE_FAILED>>)
        @@ (DEPLOYING :> <<OBSERVING, STATE_FAILED>>)
        @@ (OBSERVING :> <<MAINTAINING, IDLE>>)
        @@ (MAINTAINING :> <<BUILDING, OBSERVING, IDLE, STATE_FAILED>>)
        @@ (STATE_FAILED :> <<IDLE>>)

\* the orchestrator object as one value
Machine(cur, prev, history, task) ==
    [current_state |-> cur, previous_state |-> prev, transition_history |-> history,
     current_task |-> task]

M == Machine(current_state, previous_state, transition_history, current_task)

\* self.TRANSITIONS.get(self.current_state, [])
get_allowed_transitions(m) ==
    IF m.current_state \in DOMAIN TRANSITIONS THEN TRANSITIONS[m.current_state] ELSE <<>>

can_transition(m, to_state) == Contains(get_allowed_transitions(m), to_state)

StateTransition(from_state, to_state, trigger) ==
    [from_state |-> from_state, to_state |-> to_state, trigger |-> trigger]

\* transition that records the phase change before it checks the table
transition_unchecked(m, to_state, trigger) ==
    LET t == StateTransition(m.current_state, to_state, trigger)
        m2 == Machine(to_state, m.current_state, Append(m.transition_history, t),
                      m.current_task)
    IN  IF ~can_transition(m, to_state)
        THEN [m |-> m2, raised |-> "StateTransitionError", result |-> <<>>]
        ELSE [m |-> m2, raised |-> "", result |-> <<t>>]

\* transition that records the default trigger instead of its argument
transition_default_trigger(m, to_state, trigger) ==
    IF ~can_transition(m, to_state)
    THEN [m |-> m, raised |-> "StateTransitionError", result |-> <<>>]
    ELSE LET t == StateTransition(m.current_state, to_state, "manual")
         IN  [m |-> Machine(to_state, m.current_state, Append(m.transition_history, t),
                            m.current_task),
              raised |-> "", result |-> <<t>>]

\* transition that builds its record after it has updated the current phase
transition_record_after_update(m, to_state, trigger) ==
    IF ~can_transition(m, to_state)
    THEN [m |-> m, raised |-> "StateTransitionError", result |-> <<>>]
    ELSE LET t == StateTransition(to_state, to_state, trigger)
         IN  [m |-> Machine(to_state, m.current_state, Append(m.transition_history, t),
                            m.current_task),
              raised |-> "", result |-> <<t>>]

\* [m |-> the machine after the call, raised |-> "" or the exception,
\*  result |-> the returned record as a list of length one]
transition(m, to_state, trigger) ==
    IF ~can_transition(m, to_state)
    THEN [m |-> m, raised |-> "StateTransitionError", result |-> <<>>]
    ELSE LET t == StateTransition(m.current_state, to_state, trigger)
         IN  [m |-> Machine(to_state, m.current_state, Append(m.transition_history, t),
                            m.current_task),
              raised |-> "", result |-> <<t>>]

\* reset recording the phase it leaves, as transition does at line 104
reset_sets_previous(m) ==
    Machine(IDLE, m.current_state, m.transition_history, "")

\* reset that also starts the history afresh
reset_clears_history(m) ==
    [m EXCEPT !.current_state = IDLE, !.current_task = "", !.transition_history = <<>>]

\* reset that takes the step to Idle only where the transition table has it
reset_by_table(m) ==
    IF can_transition(m, IDLE) THEN [m EXCEPT !.current_state = IDLE, !.current_task = ""]
    ELSE m

reset(m) == [m EXCEPT !.current_state = IDLE, !.current_task = ""]

get_state(m) == m.current_state

\* a terminal-state test that knows Idle only
is_terminal_state_idle_only(m) == m.current_state \in {IDLE}

is_terminal_state(m) == m.current_state \in {IDLE, STATE_FAILED}

\* an accessor that hands out the machine's own list
get_transition_history_no_copy(m) == [list |-> m.transition_history, shares |-> TRUE]

\* self.transition_history.copy(): a new list object holding the same
\* records; shares tells whether the returned list is the machine's own
get_transition_history(m) == [list |-> m.transition_history, shares |-> FALSE]

\* EventType (models.py)
EventType ==
    {"state_change", "task_created", "task_started", "task_completed", "task_failed",
     "policy_violation", "llm_call", "deployment", "error"}

\* the names that the imports of models.py bind (lines 5 to 10); the module
\* binds no ULID
ModelsImports == {"datetime", "Enum", "Any", "Optional", "BaseModel", "Field", "uuid4"}

\* AuditEvent(event_type=..., actor=..., state=..., task_id=...): the id is
\* not passed, so its default factory str(ULID()) runs and looks ULID up in
\* the module; the timestamp and the event data are not modelled
AuditEvent(event_type, actor, state, task_id) ==
    IF "ULID" \in ModelsImports
    THEN [raised |-> "",
          result |-> <<[event_type |-> event_type, actor |-> actor, state |-> state,
                        task_id |-> task_id]>>]
    ELSE [raised |-> "NameError", result |-> <<>>]

\* task_id is self.current_task.id, None ("") when there is no task in flight
create_audit_event(m, event_type) ==
    AuditEvent(event_type, "orchestrator", m.current_state, m.current_task)

\* number of records of the history with a trigger other than the default
NamedCount(history) == Cardinality({i \in 1..Len(history) : history[i].trigger # "manual"})

SetMachine(m) ==
    /\ current_state' = m.current_state
    /\ previous_state' = m.previous_state
    /\ transition_history' = m.transition_history
    /\ current_task' = m.current_task

\* orchestrator.transition(to_state, trigger)
Transition(to_state, trigger) ==
    /\ can_transition(M, to_state) =>
          /\ Len(transition_history) < MaxHistory
          /\ trigger # "manual" => NamedCount(transition_history) < MaxNamed
    /\ LET r == transition(M, to_state, trigger)
       IN  SetMachine(r.m) /\ last' = RetTransition(to_state, trigger, r.raised, r.result)
    /\ UNCHANGED <<graph, workers>>

\* orchestrator.reset()
Reset ==
    /\ SetMachine(reset(M))
    /\ last' = RetId("reset", "", "", <<>>,
                     IF current_state # STATE_FAILED THEN {"non-failed state"} ELSE {})
    /\ UNCHANGED <<graph, workers>>

\* orchestrator.can_transition(to_state); result holds the returned boolean
CanTransition(to_state) ==
    /\ last' = RetId("can_transition", to_state, "", can_transition(M, to_state), {})
    /\ UNCHANGED <<graph, machine, workers>>

\* orchestrator.get_allowed_transitions()
GetAllowedTransitions ==
    /\ last' = RetId("get_allowed_transitions", "", "", get_allowed_transitions(M), {})
    /\ UNCHANGED <<graph, machine, workers>>

\* orchestrator.get_state()
GetState ==
    /\ last' = RetId("get_state", "", "", get_state(M), {})
    /\ UNCHANGED <<graph, machine, workers>>

\* orchestrator.is_terminal_state(); result holds the returned boolean
IsTerminalState ==
    /\ last' = RetId("is_terminal_state", "", "", is_terminal_state(M), {})
    /\ UNCHANGED <<graph, machine, workers>>

\* orchestrator.get_transition_history(); the caller holds the returned list
GetTransitionHistory ==
    /\ LET r == get_transition_history(M)
       IN  last' = RetHistory("get_transition_history", r.list, r.shares, 0)
    /\ UNCHANGED <<graph, machine, workers>>

\* the caller's list operation on the list it holds: append(x), pop(0) or
\* reverse(); a list that is the machine's own changes the machine's too
CallerEdit(kind) ==
    /\ last.op \in {"get_transition_history", "caller_edit"}
    /\ last.edits < MaxEdits
    /\ LET held == last.result
           new == CASE kind = "append" -> Append(held, StateTransition(IDLE, IDLE, "caller"))
                    [] kind = "pop" -> Tail(held)
                    [] kind = "reverse" -> [i \in 1..Len(held) |-> held[Len(held) + 1 - i]]
       IN  /\ kind = "pop" => held # <<>>
           /\ kind = "reverse" => new # held
           /\ last' = RetHistory("caller_edit", new, last.shares, last.edits + 1)
           /\ transition_history' = IF last.shares THEN new ELSE transition_history
    /\ UNCHANGED <<graph, current_state, previous_state, current_task, workers>>

\* orchestrator.create_audit_event(event_type); result holds the returned
\* record as a list of length one
CreateAuditEvent(event_type) ==
    /\ LET r == create_audit_event(M, event_type)
       IN  last' = RetId("create_audit_event", event_type, r.raised, r.result, {})
    /\ UNCHANGED <<graph, machine, workers>>

\* the driver's write orchestrator.current_task = task (None for "")
AssignTask(task_id) ==
    /\ current_task # task_id
    /\ current_task' = task_id
    /\ last' = RetId("assign_task", task_id, "", <<>>, {})
    /\ UNCHANGED <<graph, current_state, previous_state, transition_history, workers>>

\* Orchestrator.__init__
InitMachine ==
    /\ current_state = IDLE
    /\ previous_state = NoState
    /\ transition_history = <<>>
    /\ current_task = ""

---------------------------------------------------------------------------
(* The threads of the embedding system.  Every thread starts outside any  *)
(* call.  lock is NoLock when the embedding system uses no mutex, FreeLock *)
(* when it uses one that no thread holds, and otherwise the holder.        *)

Workers == {"w1", "w2"}

NoLock == "none"

FreeLock == "free"

\* the position of a thread that is in no call
Outside == [at |-> "outside"]

\* one call at a time, no mutex
InitWorkers == pc = [w \in Workers |-> Outside] /\ lock = NoLock

\* no thread holds the mutex: a call made in one step takes and returns it
\* within the step
Unheld == lock \in {NoLock, FreeLock}

\* thread w enters a critical section
Acquire(w) == Unheld /\ lock' = (IF lock = NoLock THEN NoLock ELSE w)

\* thread w is inside its critical section, or there is no mutex
Holding(w) == lock \in {NoLock, w}

\* thread w leaves its critical section
Release(w) == lock' = (IF lock = NoLock THEN NoLock ELSE FreeLock)

---------------------------------------------------------------------------
(* add_task as the steps between which another thread can run.  A step    *)
(* holds one access of the shared graph and the thread's own computation  *)
(* up to its next access: the lookup of line 49; the store of line 52;    *)
(* per dependency the lookup of line 56 and the appends of lines 58 and   *)
(* 59; inside _has_cycle every next() of the iteration over self.tasks    *)
(* (line 235) and, per call of dfs, the subscript of line 225 with the    *)
(* first next() of the list iteration and then every further next(); the  *)
(* delete of line 64.  The position of a thread inside add_task is        *)
(*   [at, task, warned, i, size, pos, visited, rec_stack, frames]         *)
(* i: the dependency the loop of line 55 is at; size: len(self.tasks)     *)
(* when the iteration of line 235 began; pos: the entry it fetches next;  *)
(* frames: the calls of dfs in progress, the innermost last.              *)

\* the position of a thread that has just entered add_task
AddLocals(at, task, warned) ==
    [at |-> at, task |-> task, warned |-> warned, i |-> 1, size |-> 0, pos |-> 1,
     visited |-> {}, rec_stack |-> {}, frames |-> <<>>]

\* a call dfs(task_id) that has not reached line 225: no list is bound yet
NewFrame(task_id) ==
    [id |-> task_id, bound |-> FALSE, live |-> TRUE, lst |-> <<>>, idx |-> 1]

\* the list object a call of dfs iterates: the one stored under its key, or
\* the one it kept when remove_task deleted the key
FrameList(adj, f) == IF f.live THEN adj[f.id] ELSE f.lst

\* del self._adjacency_list[task_id] (line 92) seen from a thread inside
\* _has_cycle: a call of dfs that iterates the list of task_id keeps the list
\* object, with the entries it had when the key was deleted
detach(p, task_id, lst) ==
    IF p.at \notin {"_has_cycle:235", "dfs:225"} THEN p
    ELSE [p EXCEPT !.frames =
             [k \in 1..Len(p.frames) |->
                 IF p.frames[k].id = task_id /\ p.frames[k].bound /\ p.frames[k].live
                 THEN [p.frames[k] EXCEPT !.live = FALSE, !.lst = lst]
                 ELSE p.frames[k]]]

\* the place of the record of task_id in self.tasks
TaskIndex(ts, task_id) == CHOOSE i \in 1..Len(ts) : ts[i].id = task_id

\* the positions inside a scan
ScanAts ==
    {"get_ready_tasks:118", "get_ready_tasks:126", "get_ready_tasks:124",
     "get_blocked_tasks:157", "get_blocked_tasks:165", "get_blocked_tasks:163",
     "get_blocked_tasks:169"}

\* del self.tasks[task_id] of the j-th entry, seen from a thread inside a
\* scan: the entries behind the deleted one move up, and a Task object the
\* thread holds is no longer the stored one
deleted(p, task_id, j) ==
    IF p.at \notin ScanAts THEN p
    ELSE [p EXCEPT !.pos = IF j < @ THEN @ - 1 ELSE @,
                   !.live = @ /\ p.task.id # task_id]

\* self.tasks[task_id] = task over a stored id, seen from a thread inside a
\* scan: a Task object the thread holds is no longer the stored one
replaced(p, task_id) ==
    IF p.at \notin ScanAts THEN p
    ELSE [p EXCEPT !.live = @ /\ p.task.id # task_id]

\* lines 64-65: del self.tasks[task.id], which raises KeyError when another
\* thread has removed the record, then raise DAGCycleError
add_task_rollback(g, task) ==
    IF HasTask(g.tasks, task.id)
    THEN [g |-> Graph(TaskDel(g.tasks, task.id), g.adjacency_list, g.reverse_adjacency),
          raised |-> "DAGCycleError"]
    ELSE [g |-> g, raised |-> "KeyError"]

\* lines 235-237, one next() of the iteration over self.tasks: RuntimeError
\* when the dict has changed size since the iteration began, the end of the
\* search when it is exhausted, else the call dfs(task_id) or, for a task
\* already visited, the next round
next_root(ts, p) ==
    IF Len(ts) # p.size THEN [p EXCEPT !.at = "RuntimeError"]
    ELSE IF p.pos > Len(ts) THEN [p EXCEPT !.at = "return"]
    ELSE LET task_id == ts[p.pos].id
         IN  IF task_id \notin p.visited
             THEN [p EXCEPT !.at = "dfs:225", !.pos = @ + 1,
                            !.frames = <<NewFrame(task_id)>>]
             ELSE [p EXCEPT !.at = "_has_cycle:235", !.pos = @ + 1]

\* lines 222-233, one step of the innermost call of dfs: on its first step
\* lines 222-225 up to the list of the task (the subscript stores a missing
\* key), then one next() of the list iteration: the return of line 233 when
\* it is exhausted, else the call of line 227, the verdict of line 230 or
\* the next round.  [p |-> the position after the step, adj |-> the index]
dfs_step(adj, p) ==
    LET n    == Len(p.frames)
        f    == p.frames[n]
        adj1 == IF f.bound THEN adj ELSE Touch(adj, f.id)
        vis  == p.visited \cup {f.id}
        rs   == p.rec_stack \cup {f.id}
        lst  == FrameList(adj1, f)
        f1   == [f EXCEPT !.bound = TRUE, !.idx = @ + 1]
        p1   == [p EXCEPT !.visited = vis, !.rec_stack = rs, !.frames[n] = f1]
    IN  [adj |-> adj1,
         p   |-> IF f.idx > Len(lst)
                 THEN [p EXCEPT !.visited = vis, !.rec_stack = rs \ {f.id},
                                !.frames = SubSeq(p.frames, 1, n - 1),
                                !.at = IF n = 1 THEN "_has_cycle:235" ELSE "dfs:225"]
                 ELSE LET dependent_id == lst[f.idx]
                      IN  IF dependent_id \notin vis
                          THEN [p1 EXCEPT !.frames = Append(@, NewFrame(dependent_id))]
                          ELSE IF dependent_id \in rs
                               THEN [p1 EXCEPT !.at = "add_task:64"]
                               ELSE p1]

\* thread w goes on from position p: add_task returns, lets the RuntimeError
\* of line 235 through, or stays inside
Proceed(w, p) ==
    IF p.at \in {"return", "RuntimeError"}
    THEN /\ pc' = [pc EXCEPT ![w] = Outside]
         /\ last' = RetId("add_task", p.task.id,
                          IF p.at = "return" THEN "" ELSE p.at, <<>>, p.warned)
         /\ Release(w)
    ELSE /\ pc' = [pc EXCEPT ![w] = IF p.at = "add_task:64"
                                    THEN AddLocals("add_task:64", p.task, p.warned)
                                    ELSE p]
         /\ UNCHANGED <<last, lock>>

\* line 49: thread w calls dag.add_task(task) and looks the id up
BeginAddTask(w, task) ==
    /\ pc[w] = Outside
    /\ EdgeCount(adjacency_list) + Len(task.dependencies) <= MaxEdges
    /\ Acquire(w)
    /\ pc' = [pc EXCEPT ![w] =
                 AddLocals("add_task:52", task,
                           IF HasTask(tasks, task.id) THEN {"replacing"} ELSE {})]
    /\ todo' = todo \ {task}
    /\ UNCHANGED <<tasks, adjacency_list, reverse_adjacency, last, machine>>

\* line 52: the record is stored; a scan that holds the Task object stored
\* under the id before holds an object that is no longer stored
StoreAddTask(w) ==
    /\ pc[w].at = "add_task:52"
    /\ Holding(w)
    /\ tasks' = TaskPut(tasks, pc[w].task)
    /\ pc' = [v \in Workers |->
                 IF v = w
                 THEN [pc[w] EXCEPT !.at = IF pc[w].task.dependencies = <<>>
                                           THEN "add_task:62" ELSE "add_task:56"]
                 ELSE replaced(pc[v], pc[w].task.id)]
    /\ UNCHANGED <<adjacency_list, reverse_adjacency, last, todo, machine, lock>>

\* lines 56-57: the dependency is looked up
LookupAddTask(w) ==
    /\ pc[w].at = "add_task:56"
    /\ Holding(w)
    /\ pc' = [pc EXCEPT ![w].at = "add_task:58",
                        ![w].warned =
                            IF HasTask(tasks, pc[w].task.dependencies[pc[w].i])
                            THEN @ ELSE @ \cup {"unknown dependency"}]
    /\ UNCHANGED <<graph, last, machine, lock>>

\* line 58: the task is appended to the forward list of the dependency
ForwardAddTask(w) ==
    /\ pc[w].at = "add_task:58"
    /\ Holding(w)
    /\ LET dep_id == pc[w].task.dependencies[pc[w].i]
       IN  adjacency_list' =
               [Touch(adjacency_list, dep_id) EXCEPT ![dep_id] = Append(@, pc[w].task.id)]
    /\ pc' = [pc EXCEPT ![w].at = "add_task:59"]
    /\ UNCHANGED <<tasks, reverse_adjacency, last, todo, machine, lock>>

\* line 59: the dependency is appended to the reverse list of the task
ReverseAddTask(w) ==
    /\ pc[w].at = "add_task:59"
    /\ Holding(w)
    /\ LET task_id == pc[w].task.id
           rev     == RevTouch(reverse_adjacency, task_id)
       IN  reverse_adjacency' =
               RevSet(rev, task_id,
                      Append(RevGet(rev, task_id), pc[w].task.dependencies[pc[w].i]))
    /\ pc' = [pc EXCEPT ![w].at = IF pc[w].i < Len(pc[w].task.dependencies)
                                  THEN "add_task:56" ELSE "add_task:62",
                        ![w].i = @ + 1]
    /\ UNCHANGED <<tasks, adjacency_list, last, todo, machine, lock>>

\* line 62: thread w calls _has_cycle, which begins the iteration over
\* self.tasks and fetches its first entry
CheckAddTask(w) ==
    /\ pc[w].at = "add_task:62"
    /\ Holding(w)
    /\ Proceed(w, next_root(tasks, [pc[w] EXCEPT !.size = Len(tasks), !.pos = 1]))
    /\ UNCHANGED <<tasks, adjacency_list, reverse_adjacency, todo, machine>>

\* line 235: the iteration over self.tasks fetches its next entry
NextRootAddTask(w) ==
    /\ pc[w].at = "_has_cycle:235"
    /\ Holding(w)
    /\ Proceed(w, next_root(tasks, pc[w]))
    /\ UNCHANGED <<tasks, adjacency_list, reverse_adjacency, todo, machine>>

\* line 225: the innermost call of dfs fetches the next dependent
DfsAddTask(w) ==
    /\ pc[w].at = "dfs:225"
    /\ Holding(w)
    /\ LET r == dfs_step(adjacency_list, pc[w])
       IN  adjacency_list' = r.adj /\ Proceed(w, r.p)
    /\ UNCHANGED <<tasks, reverse_adjacency, todo, machine>>

\* lines 64-65: thread w removes the record it stored and raises; the
\* iterations of the scans in progress see the entry go
RollbackAddTask(w) ==
    /\ pc[w].at = "add_task:64"
    /\ Holding(w)
    /\ LET r == add_task_rollback(G, pc[w].task)
       IN  /\ SetGraph(r.g)
           /\ last' = RetId("add_task", pc[w].task.id, r.raised, <<>>, pc[w].warned)
    /\ pc' = [v \in Workers |->
                 IF v = w THEN Outside
                 ELSE IF HasTask(tasks, pc[w].task.id)
                      THEN deleted(pc[v], pc[w].task.id, TaskIndex(tasks, pc[w].task.id))
                      ELSE pc[v]]
    /\ Release(w)
    /\ UNCHANGED <<todo, machine>>

---------------------------------------------------------------------------
(* get_ready_tasks, get_next_task and get_blocked_tasks as the steps       *)
(* between which another thread can run.  A step holds one access of the  *)
(* shared graph and the thread's own computation up to its next access:   *)
(* every next() of the iteration over self.tasks.values() (line 118, line *)
(* 157) with the read of the fetched task's status; per dependency the    *)
(* test "dep_id in self.tasks" of the generator expression (line 126,     *)
(* line 165) and its subscript self.tasks[dep_id].status (line 124, line  *)
(* 163); the write of line 169.  The position of a thread inside a scan is *)
(*   [at, op, caller, size, left, pos, found, task, live, k]              *)
(* caller: the worker whose loop called get_next_task, or ""; size:       *)
(* len(self.tasks) when the iteration began; left: the entries it may     *)
(* still yield; pos: the entry it fetches next; found: the tasks          *)
(* collected (ready, blocked); task: the Task object of the round; live:  *)
(* that object is still the one stored under its id; k: the dependency    *)
(* the generator expression is at.                                        *)

\* no thread is inside a call
NoReader == \A w \in Workers : pc[w] = Outside

\* the mutex after a step of thread w that leaves it inside a critical
\* section or outside
LockAfter(w, inside) ==
    lock' = IF lock = NoLock THEN NoLock ELSE IF inside THEN w ELSE FreeLock

\* no Task object
NoHeld == [id |-> "", dependencies |-> <<>>, priority |-> 0, created_at |-> 0]

\* the fields of a Task object that no thread writes
Held(t) ==
    [id |-> t.id, dependencies |-> t.dependencies, priority |-> t.priority,
     created_at |-> t.created_at]

\* the position of a thread that begins the iteration of line 118 or 157
ScanLocals(ts, op, caller) ==
    [at |-> IF op = "get_blocked_tasks" THEN "get_blocked_tasks:157"
            ELSE "get_ready_tasks:118",
     op |-> op, caller |-> caller, size |-> Len(ts), left |-> Len(ts), pos |-> 1,
     found |-> <<>>, task |-> NoHeld, live |-> TRUE, k |-> 1]

\* the round is over and the task is not collected (line 120, line 159, a
\* false deps_completed or has_failed_dep)
skip_task(p) ==
    [p EXCEPT !.at = IF p.op = "get_blocked_tasks" THEN "get_blocked_tasks:157"
                     ELSE "get_ready_tasks:118",
              !.task = NoHeld, !.live = TRUE, !.k = 1]

\* the round is over and the task is collected (line 130, line 170)
take_task(p) == [skip_task(p) EXCEPT !.found = Append(p.found, p.task)]

\* one next() of the iteration over self.tasks.values(): RuntimeError when
\* the dict has changed size since the iteration began, the end of the loop
\* when it is exhausted, RuntimeError when an entry is left after the
\* iteration has yielded as many entries as the dict held when it began,
\* else the entry fetched
scan_next(ts, p) ==
    IF Len(ts) # p.size THEN [p EXCEPT !.at = "RuntimeError"]
    ELSE IF p.pos > Len(ts) THEN [p EXCEPT !.at = "return"]
    ELSE IF p.left = 0 THEN [p EXCEPT !.at = "RuntimeError"]
    ELSE [p EXCEPT !.task = Held(ts[p.pos]), !.pos = @ + 1, !.left = @ - 1,
                   !.live = TRUE, !.k = 1]

\* lines 118-120 for any status: the fetched task is never skipped
ready_next_any_status(ts, p) ==
    LET q == scan_next(ts, p)
    IN  IF q.at \in {"RuntimeError", "return"} THEN q
        ELSE IF q.task.dependencies = <<>> THEN take_task(q)
        ELSE [q EXCEPT !.at = "get_ready_tasks:126"]

\* lines 118-120 and the start of lines 123-127: the next task is fetched
\* and its status read; a pending task with dependencies goes to the
\* generator expression
ready_next(ts, p) ==
    LET q == scan_next(ts, p)
    IN  IF q.at \in {"RuntimeError", "return"} THEN q
        ELSE IF ts[p.pos].status # PENDING THEN skip_task(q)
        ELSE IF q.task.dependencies = <<>> THEN take_task(q)
        ELSE [q EXCEPT !.at = "get_ready_tasks:126"]

\* lines 157-159 and the start of lines 162-166
blocked_next(ts, p) ==
    LET q == scan_next(ts, p)
    IN  IF q.at \in {"RuntimeError", "return"} THEN q
        ELSE IF ts[p.pos].status \in {COMPLETED, FAILED, SKIPPED} THEN skip_task(q)
        ELSE IF q.task.dependencies = <<>> THEN skip_task(q)
        ELSE [q EXCEPT !.at = "get_blocked_tasks:165"]

\* the generator expression goes on to its next dependency; when there is
\* none all() has seen no false value and any() no true one
dep_after(p) ==
    IF p.k < Len(p.task.dependencies)
    THEN [p EXCEPT !.k = @ + 1,
                   !.at = IF p.op = "get_blocked_tasks" THEN "get_blocked_tasks:165"
                          ELSE "get_ready_tasks:126"]
    ELSE IF p.op = "get_blocked_tasks" THEN skip_task(p) ELSE take_task(p)

\* line 126, line 165: if dep_id in self.tasks
dep_filter(ts, p) ==
    IF HasTask(ts, p.task.dependencies[p.k])
    THEN [p EXCEPT !.at = IF p.op = "get_blocked_tasks" THEN "get_blocked_tasks:163"
                          ELSE "get_ready_tasks:124"]
    ELSE dep_after(p)

\* line 124: self.tasks[dep_id].status == TaskStatus.COMPLETED, which raises
\* KeyError when the record has gone since the test of line 126; all() stops
\* at the first false value
ready_dep(ts, p) ==
    LET dep_id == p.task.dependencies[p.k]
    IN  IF ~HasTask(ts, dep_id) THEN [p EXCEPT !.at = "KeyError"]
        ELSE IF TaskOf(ts, dep_id).status = COMPLETED THEN dep_after(p)
        ELSE skip_task(p)

\* line 163: self.tasks[dep_id].status == TaskStatus.FAILED; any() stops at
\* the first true value
blocked_dep(ts, p) ==
    LET dep_id == p.task.dependencies[p.k]
    IN  IF ~HasTask(ts, dep_id) THEN [p EXCEPT !.at = "KeyError"]
        ELSE IF TaskOf(ts, dep_id).status = FAILED
             THEN [p EXCEPT !.at = "get_blocked_tasks:169"]
             ELSE dep_after(p)

\* the task's status after the write task.status = status
WriteStatus(ts, task_id, status) ==
    [i \in 1..Len(ts) |->
        IF ts[i].id = task_id
        THEN [ts[i] EXCEPT !.status = status, !.status_is_str = FALSE]
        ELSE ts[i]]

\* line 169: task.status = TaskStatus.BLOCKED on the Task object of the
\* round, which changes self.tasks while the object is stored there
blocked_mark(ts, p) == IF p.live THEN WriteStatus(ts, p.task.id, BLOCKED) ELSE ts

\* what the scan at p returns: line 133 and line 134, line 144, line 172
scan_result(p) ==
    IF p.op = "get_blocked_tasks" THEN IdsOf(p.found)
    ELSE LET ready == IdsOf(StableSort(p.found))
         IN  IF p.op = "get_ready_tasks" THEN ready
             ELSE IF ready # <<>> THEN <<ready[1]>> ELSE <<>>

\* thread w goes on from position p: the call returns or raises, and a
\* worker that was given a task keeps the mutex to mark it; or the thread
\* stays inside
ScanProceed(w, p) ==
    IF p.at \in {"return", "RuntimeError", "KeyError"}
    THEN LET result == IF p.at = "return" THEN scan_result(p) ELSE <<>>
             given  == p.caller # "" /\ result # <<>>
         IN  /\ last' = RetId(p.op, p.caller, IF p.at = "return" THEN "" ELSE p.at,
                              result, {})
             /\ pc' = [pc EXCEPT ![w] = IF given
                                        THEN [at |-> "dispatch:mark", task |-> result[1]]
                                        ELSE Outside]
             /\ LockAfter(w, given)
    ELSE /\ pc' = [pc EXCEPT ![w] = p]
         /\ last' = last
         /\ LockAfter(w, TRUE)

\* thread w calls dag.get_ready_tasks(), directly or through get_next_task
\* (line 143); the iteration of line 118 begins and fetches its first entry
BeginReady(w, op) ==
    /\ pc[w] = Outside
    /\ Unheld
    /\ ScanProceed(w, ready_next(tasks, ScanLocals(tasks, op, "")))
    /\ UNCHANGED <<graph, machine>>

\* line 118: the iteration fetches its next entry
ScanReady(w) ==
    /\ pc[w].at = "get_ready_tasks:118"
    /\ Holding(w)
    /\ ScanProceed(w, ready_next(tasks, pc[w]))
    /\ UNCHANGED <<graph, machine>>

\* line 126: the generator expression tests whether the dependency is stored
FilterReady(w) ==
    /\ pc[w].at = "get_ready_tasks:126"
    /\ Holding(w)
    /\ ScanProceed(w, dep_filter(tasks, pc[w]))
    /\ UNCHANGED <<graph, machine>>

\* line 124: the generator expression reads the status of the dependency
DepReady(w) ==
    /\ pc[w].at = "get_ready_tasks:124"
    /\ Holding(w)
    /\ ScanProceed(w, ready_dep(tasks, pc[w]))
    /\ UNCHANGED <<graph, machine>>

\* thread w calls dag.get_blocked_tasks(); the iteration of line 157 begins
\* and fetches its first entry
BeginBlocked(w) ==
    /\ pc[w] = Outside
    /\ Unheld
    /\ ScanProceed(w, blocked_next(tasks, ScanLocals(tasks, "get_blocked_tasks", "")))
    /\ UNCHANGED <<graph, machine>>

\* line 157: the iteration fetches its next entry
ScanBlocked(w) ==
    /\ pc[w].at = "get_blocked_tasks:157"
    /\ Holding(w)
    /\ ScanProceed(w, blocked_next(tasks, pc[w]))
    /\ UNCHANGED <<graph, machine>>

\* line 165: the generator expression tests whether the dependency is stored
FilterBlocked(w) ==
    /\ pc[w].at = "get_blocked_tasks:165"
    /\ Holding(w)
    /\ ScanProceed(w, dep_filter(tasks, pc[w]))
    /\ UNCHANGED <<graph, machine>>

\* line 163: the generator expression reads the status of the dependency
DepBlocked(w) ==
    /\ pc[w].at = "get_blocked_tasks:163"
    /\ Holding(w)
    /\ ScanProceed(w, blocked_dep(tasks, pc[w]))
    /\ UNCHANGED <<graph, machine>>

\* lines 169-170: the task is marked blocked and collected
MarkBlocked(w) ==
    /\ pc[w].at = "get_blocked_tasks:169"
    /\ Holding(w)
    /\ tasks' = blocked_mark(tasks, pc[w])
    /\ pc' = [pc EXCEPT ![w] = take_task(pc[w])]
    /\ UNCHANGED <<adjacency_list, reverse_adjacency, last, todo, machine, lock>>

---------------------------------------------------------------------------
(* remove_task as the steps between which another thread can run: the     *)
(* test of line 74; the subscript of line 78; per dependency the test and *)
(* the removal of lines 82-83; every next() of the iteration over the     *)
(* forward list of the task (line 86) with the test and the removal of    *)
(* lines 87-88; the delete of line 90; the test and delete of lines 91-92 *)
(* and of lines 93-94.  The position of a thread inside remove_task is    *)
(*   [at, task_id, dependencies, i, idx]                                  *)
(* dependencies: those of the Task object fetched at line 78; i: the      *)
(* dependency the loop of line 81 is at; idx: the entry the iteration of  *)
(* line 86 fetches next.                                                   *)

RemoveLocals(at, task_id, dependencies) ==
    [at |-> at, task_id |-> task_id, dependencies |-> dependencies, i |-> 1, idx |-> 1]

\* thread w raises or returns from remove_task
LeaveRemoveTask(w, raised, warned) ==
    /\ pc' = [pc EXCEPT ![w] = Outside]
    /\ last' = RetId("remove_task", pc[w].task_id, raised, <<>>, warned)
    /\ LockAfter(w, FALSE)

\* line 74: thread w calls dag.remove_task(task_id) and tests for the id
BeginRemoveTask(w, task_id) ==
    /\ pc[w] = Outside
    /\ Unheld
    /\ IF HasTask(tasks, task_id)
       THEN /\ pc' = [pc EXCEPT ![w] = RemoveLocals("remove_task:78", task_id, <<>>)]
            /\ last' = last
            /\ LockAfter(w, TRUE)
       ELSE /\ pc' = pc
            /\ last' = RetId("remove_task", task_id, "", <<>>, {"not found"})
            /\ LockAfter(w, FALSE)
    /\ UNCHANGED <<graph, machine>>

\* line 78: task = self.tasks[task_id], which raises KeyError when the
\* record has gone since the test of line 74
FetchRemoveTask(w) ==
    /\ pc[w].at = "remove_task:78"
    /\ Holding(w)
    /\ IF HasTask(tasks, pc[w].task_id)
       THEN LET deps == TaskOf(tasks, pc[w].task_id).dependencies
            IN  /\ pc' = [pc EXCEPT ![w] =
                             RemoveLocals(IF deps = <<>> THEN "remove_task:86"
                                          ELSE "remove_task:82", pc[w].task_id, deps)]
                /\ UNCHANGED <<last, lock>>
       ELSE LeaveRemoveTask(w, "KeyError", {})
    /\ UNCHANGED <<graph, machine>>

\* lines 82-83: the task leaves the forward list of the dependency
ForwardRemoveTask(w) ==
    /\ pc[w].at = "remove_task:82"
    /\ Holding(w)
    /\ adjacency_list' = remove_forward(adjacency_list, <<pc[w].dependencies[pc[w].i]>>,
                                        pc[w].task_id, 1)
    /\ pc' = [pc EXCEPT ![w].at = IF pc[w].i < Len(pc[w].dependencies)
                                  THEN "remove_task:82" ELSE "remove_task:86",
                        ![w].i = @ + 1]
    /\ UNCHANGED <<tasks, reverse_adjacency, last, todo, machine, lock>>

\* lines 86-88: the iteration over self._adjacency_list[task_id] (the
\* subscript stores a missing key) fetches its next entry, and the task
\* leaves the reverse list of that dependent
ReverseRemoveTask(w) ==
    /\ pc[w].at = "remove_task:86"
    /\ Holding(w)
    /\ LET adj == Touch(adjacency_list, pc[w].task_id)
           lst == adj[pc[w].task_id]
       IN  /\ adjacency_list' = adj
           /\ IF pc[w].idx > Len(lst)
              THEN /\ reverse_adjacency' = reverse_adjacency
                   /\ pc' = [pc EXCEPT ![w].at = "remove_task:90"]
              ELSE /\ reverse_adjacency' =
                          remove_reverse(reverse_adjacency, <<lst[pc[w].idx]>>,
                                         pc[w].task_id, 1)
                   /\ pc' = [pc EXCEPT ![w].idx = @ + 1]
    /\ UNCHANGED <<tasks, last, todo, machine, lock>>

\* line 90: del self.tasks[task_id], which raises KeyError when the record
\* has gone since line 78 and then leaves the keys of both indexes in place
DeleteRemoveTask(w) ==
    /\ pc[w].at = "remove_task:90"
    /\ Holding(w)
    /\ IF HasTask(tasks, pc[w].task_id)
       THEN /\ tasks' = TaskDel(tasks, pc[w].task_id)
            /\ pc' = [v \in Workers |->
                         IF v = w THEN [pc[w] EXCEPT !.at = "remove_task:91"]
                         ELSE deleted(pc[v], pc[w].task_id,
                                      TaskIndex(tasks, pc[w].task_id))]
            /\ UNCHANGED <<last, lock>>
       ELSE /\ tasks' = tasks
            /\ LeaveRemoveTask(w, "KeyError", {})
    /\ UNCHANGED <<adjacency_list, reverse_adjacency, todo, machine>>

\* lines 91-92: the key of the task leaves the forward index; a call of dfs
\* that iterates its list keeps the list object
ForwardKeyRemoveTask(w) ==
    /\ pc[w].at = "remove_task:91"
    /\ Holding(w)
    /\ adjacency_list' = AdjDel(adjacency_list, pc[w].task_id)
    /\ pc' = [v \in Workers |->
                 IF v = w THEN [pc[w] EXCEPT !.at = "remove_task:93"]
                 ELSE IF pc[w].task_id \in DOMAIN adjacency_list
                      THEN detach(pc[v], pc[w].task_id, adjacency_list[pc[w].task_id])
                      ELSE pc[v]]
    /\ UNCHANGED <<tasks, reverse_adjacency, last, todo, machine, lock>>

\* lines 93-94: the key of the task leaves the reverse index, and the call
\* returns
ReverseKeyRemoveTask(w) ==
    /\ pc[w].at = "remove_task:93"
    /\ Holding(w)
    /\ reverse_adjacency' = RevDel(reverse_adjacency, pc[w].task_id)
    /\ LeaveRemoveTask(w, "", {})
    /\ UNCHANGED <<tasks, adjacency_list, todo, machine>>

---------------------------------------------------------------------------
(* transition as the steps between which another thread can run: the      *)
(* check (lines 91-95), the construction of the record from the current   *)
(* phase (lines 97-102), the three assignments (lines 104, 105, 106) and  *)
(* the return.                                                             *)

\* a record built from the previous phase instead of the current one
transition_record_from_previous(m, to_state, trigger) ==
    StateTransition(m.previous_state, to_state, trigger)

\* lines 97-102
transition_record(m, to_state, trigger) ==
    StateTransition(m.current_state, to_state, trigger)

\* the number of transition calls that have passed the check and not yet
\* appended their record
InFlight == Cardinality({w \in Workers : pc[w] # Outside})

\* thread w calls orchestrator.transition(to_state, trigger) and runs the
\* check of line 91
CheckTransition(w, to_state, trigger) ==
    /\ pc[w] = Outside
    /\ can_transition(M, to_state) => Len(transition_history) + InFlight < MaxRaceHistory
    /\ Unheld
    /\ IF can_transition(M, to_state)
       THEN /\ Acquire(w)
            /\ pc' = [pc EXCEPT ![w] = [at |-> "transition:97", to_state |-> to_state,
                                        trigger |-> trigger]]
            /\ UNCHANGED last
       ELSE /\ last' = RetTransition(to_state, trigger, "StateTransitionError", <<>>)
            /\ UNCHANGED <<pc, lock>>
    /\ UNCHANGED <<graph, machine>>

\* thread w builds the record from the phase that is current now
BuildTransition(w) ==
    /\ pc[w].at = "transition:97"
    /\ Holding(w)
    /\ pc' = [pc EXCEPT ![w] = [at |-> "transition:104", to_state |-> pc[w].to_state,
                                trigger |-> pc[w].trigger,
                                record |-> transition_record(M, pc[w].to_state,
                                                             pc[w].trigger)]]
    /\ UNCHANGED <<graph, machine, last, lock>>

\* self.previous_state = self.current_state
StorePrevious(w) ==
    /\ pc[w].at = "transition:104"
    /\ Holding(w)
    /\ previous_state' = current_state
    /\ pc' = [pc EXCEPT ![w].at = "transition:105"]
    /\ UNCHANGED <<graph, current_state, transition_history, current_task, last, lock>>

\* self.current_state = to_state
StoreCurrent(w) ==
    /\ pc[w].at = "transition:105"
    /\ Holding(w)
    /\ current_state' = pc[w].to_state
    /\ pc' = [pc EXCEPT ![w].at = "transition:106"]
    /\ UNCHANGED <<graph, previous_state, transition_history, current_task, last, lock>>

\* self.transition_history.append(transition); return transition
AppendTransition(w) ==
    /\ pc[w].at = "transition:106"
    /\ Holding(w)
    /\ transition_history' = Append(transition_history, pc[w].record)
    /\ last' = RetTransition(pc[w].to_state, pc[w].trigger, "", <<pc[w].record>>)
    /\ pc' = [pc EXCEPT ![w] = Outside]
    /\ Release(w)
    /\ UNCHANGED <<graph, current_state, previous_state, current_task>>

---------------------------------------------------------------------------
(* The workers of a parallel driver.  A worker takes the next task and    *)
(* marks it running inside one critical section, runs it outside the      *)
(* mutex, and reports the outcome inside a critical section.  A worker    *)
(* that is given no task leaves its critical section at once.             *)

\* worker w calls dag.get_next_task(); the iteration of line 118 begins and
\* fetches its first entry
TakeNext(w) ==
    /\ pc[w] = Outside
    /\ Unheld
    /\ ScanProceed(w, ready_next(tasks, ScanLocals(tasks, "get_next_task", w)))
    /\ UNCHANGED <<graph, machine>>

\* worker w writes task.status = TaskStatus.RUNNING on the task it was given
MarkRunning(w) ==
    /\ pc[w].at = "dispatch:mark"
    /\ Holding(w)
    /\ tasks' = WriteStatus(tasks, pc[w].task, RUNNING)
    /\ pc' = [pc EXCEPT ![w].at = "running"]
    /\ Release(w)
    /\ last' = RetId("set_status", pc[w].task, "", <<>>, {})
    /\ UNCHANGED <<adjacency_list, reverse_adjacency, todo, machine>>

\* worker w reports the outcome of its task: completed or failed
Report(w, status) ==
    /\ pc[w].at = "running"
    /\ Unheld
    /\ tasks' = WriteStatus(tasks, pc[w].task, status)
    /\ pc' = [pc EXCEPT ![w] = Outside]
    /\ last' = RetId("set_status", pc[w].task, "", <<>>, {})
    /\ UNCHANGED <<adjacency_list, reverse_adjacency, todo, machine, lock>>

---------------------------------------------------------------------------
(* topological_sort as the steps between which another thread can run,   *)
(* one pass of its while loop at a time.  A mutator runs only while no    *)
(* thread is inside a read (reader/writer locking of the embedding        *)
(* system).                                                                *)

\* one pass of the while loop of line 196 that removes the edges it has
\* followed from the index, as Kahn's algorithm is often written
kahn_pass_consumes_edges(ts, st) ==
    LET task_id == Head(st.queue)
    IN  IF ~HasTask(ts, task_id)
        THEN [st EXCEPT !.queue = Tail(@), !.raised = "KeyError"]
        ELSE LET r == kahn_inner([st EXCEPT !.queue = Tail(@),
                                            !.result = Append(@, task_id),
                                            !.adj = Touch(@, task_id)],
                                 task_id, 1)
             IN  [r EXCEPT !.adj[task_id] = <<>>]

\* one pass of the while loop of line 196 (lines 197-204)
kahn_pass(ts, st) ==
    LET task_id == Head(st.queue)
    IN  IF ~HasTask(ts, task_id)
        THEN [st EXCEPT !.queue = Tail(@), !.raised = "KeyError"]
        ELSE kahn_inner([st EXCEPT !.queue = Tail(@),
                                   !.result = Append(@, task_id),
                                   !.adj = Touch(@, task_id)],
                        task_id, 1)

\* thread w enters topological_sort: lines 185-194
BeginSort(w) ==
    /\ pc[w] = Outside
    /\ LET deg == in_degree_init(G)
       IN  pc' = [pc EXCEPT ![w] =
                     [at |-> "topological_sort:196", in_degree |-> deg,
                      queue |-> SelectSeq(in_degree_keys(G), LAMBDA k : deg[k] = 0),
                      result |-> <<>>, seen |-> G]]
    /\ UNCHANGED <<graph, machine, last, lock>>

\* one pass of the while loop; an exception ends the call
PassSort(w) ==
    /\ pc[w].at = "topological_sort:196"
    /\ pc[w].queue # <<>>
    /\ LET r == kahn_pass(tasks, [in_degree |-> pc[w].in_degree, queue |-> pc[w].queue,
                                  result |-> pc[w].result, adj |-> adjacency_list,
                                  raised |-> ""])
       IN  /\ adjacency_list' = r.adj
           /\ IF r.raised # ""
              THEN /\ pc' = [pc EXCEPT ![w] = Outside]
                   /\ last' = RetId("topological_sort", "", r.raised, <<>>, {})
              ELSE /\ pc' = [pc EXCEPT ![w].in_degree = r.in_degree,
                                       ![w].queue = r.queue, ![w].result = r.result]
                   /\ last' = last
    /\ UNCHANGED <<tasks, reverse_adjacency, todo, machine, lock>>

\* lines 206-209
ReturnSort(w) ==
    /\ pc[w].at = "topological_sort:196"
    /\ pc[w].queue = <<>>
    /\ last' = IF Len(pc[w].result) # Len(tasks)
               THEN RetId("topological_sort", "", "DAGCycleError", <<>>, {})
               ELSE RetId("topological_sort", "", "", pc[w].result, {})
    /\ pc' = [pc EXCEPT ![w] = Outside]
    /\ UNCHANGED <<tasks, adjacency_list, reverse_adjacency, todo, machine, lock>>

---------------------------------------------------------------------------
(* The sequential driver of the control flow: it reads the ready tasks,   *)
(* keeps the returned list, starts tasks of that list and reports their   *)
(* outcome.  It may insert further tasks at any point.                     *)

\* the thread of the sequential driver
Driver == "w1"

\* the driver calls get_ready_tasks or get_next_task and keeps the result;
\* present records the ids stored at that moment
DriverRead(op) ==
    /\ LET r == IF op = "get_ready_tasks" THEN get_ready_tasks(G) ELSE get_next_task(G)
       IN  /\ last' = RetId(op, "", "", r, {})
           /\ pc' = [pc EXCEPT ![Driver] = [at |-> "holding", ready |-> r,
                                            present |-> TaskIdSet(tasks)]]
    /\ UNCHANGED <<graph, machine, lock>>

\* the driver starts a task of the list it holds: task.status = TaskStatus.RUNNING
DriverStart(task_id) ==
    /\ pc[Driver].at = "holding"
    /\ Contains(pc[Driver].ready, task_id)
    /\ tasks' = WriteStatus(tasks, task_id, RUNNING)
    /\ pc' = [pc EXCEPT ![Driver].ready = ListRemove(@, task_id)]
    /\ last' = RetId("set_status", task_id, "", <<>>, {})
    /\ UNCHANGED <<adjacency_list, reverse_adjacency, todo, machine, lock>>

\* the driver reports the outcome of a running task
DriverFinish(task_id, status) ==
    /\ HasTask(tasks, task_id)
    /\ TaskOf(tasks, task_id).status = RUNNING
    /\ tasks' = WriteStatus(tasks, task_id, status)
    /\ last' = RetId("set_status", task_id, "", <<>>, {})
    /\ UNCHANGED <<adjacency_list, reverse_adjacency, todo, machine, workers>>

---------------------------------------------------------------------------
(* The driver's loop: get_blocked_tasks, get_next_task, run the returned  *)
(* task, report completed or failed, and again; it stops when             *)
(* get_next_task returns None.                                             *)

\* every dependency id of every stored task is stored
DepsPresent(ts) ==
    \A i \in 1..Len(ts) : \A k \in 1..Len(ts[i].dependencies) :
        HasTask(ts, ts[i].dependencies[k])

\* the driver has inserted its project and enters the loop
LoopBegin ==
    /\ pc[Driver] = Outside
    /\ tasks # <<>> /\ DepsPresent(tasks)
    /\ pc' = [pc EXCEPT ![Driver] = [at |-> "loop:blocked"]]
    /\ UNCHANGED <<graph, machine, last, lock>>

\* dag.get_blocked_tasks()
LoopBlocked ==
    /\ pc[Driver].at = "loop:blocked"
    /\ LET r == get_blocked_tasks(G)
       IN  tasks' = r.tasks /\ last' = RetId("get_blocked_tasks", "", "", r.result, {})
    /\ pc' = [pc EXCEPT ![Driver] = [at |-> "loop:next"]]
    /\ UNCHANGED <<adjacency_list, reverse_adjacency, todo, machine, lock>>

\* dag.get_next_task(); the returned task is started, None ends the loop
LoopNext ==
    /\ pc[Driver].at = "loop:next"
    /\ LET r == get_next_task(G)
       IN  /\ last' = RetId("get_next_task", "", "", r, {})
           /\ IF r = <<>>
              THEN tasks' = tasks /\ pc' = [pc EXCEPT ![Driver] = [at |-> "stopped"]]
              ELSE /\ tasks' = WriteStatus(tasks, r[1], RUNNING)
                   /\ pc' = [pc EXCEPT ![Driver] = [at |-> "loop:run", task |-> r[1]]]
    /\ UNCHANGED <<adjacency_list, reverse_adjacency, todo, machine, lock>>

\* the task has run: the driver marks it completed or failed
LoopReport(status) ==
    /\ pc[Driver].at = "loop:run"
    /\ tasks' = WriteStatus(tasks, pc[Driver].task, status)
    /\ last' = RetId("set_status", pc[Driver].task, "", <<>>, {})
    /\ pc' = [pc EXCEPT ![Driver] = [at |-> "loop:blocked"]]
    /\ UNCHANGED <<adjacency_list, reverse_adjacency, todo, machine, lock>>

---------------------------------------------------------------------------
(* Spec: the structure of the graph under any sequence of add_task,        *)
(* remove_task and topological_sort.  The inserted records carry the       *)
(* defaults of Task (status pending) and one priority and timestamp.       *)

StructTasks ==
    {t \in Task : t.status = PENDING /\ ~t.status_is_str /\ t.priority = 1 /\ t.created_at = 1}

Init == InitGraph /\ todo = {} /\ InitMachine /\ InitWorkers

Next ==
    \/ \E t \in StructTasks : AddTask(t)
    \/ \E id \in TaskIds : RemoveTask(id)
    \/ TopologicalSort

Spec == Init /\ [][Next]_vars

---------------------------------------------------------------------------
(* SpecDiag: the diagnostic pass over every graph that add_task (records   *)
(* replaced, insertions rolled back) and remove_task leave.                *)

NextDiag ==
    \/ \E t \in StructTasks : AddTask(t)
    \/ \E id \in TaskIds : RemoveTask(id)
    \/ Validate

SpecDiag == Init /\ [][NextDiag]_vars

---------------------------------------------------------------------------
(* The dependency relation the claims speak of, read off the stored task   *)
(* records alone: t depends on d when d is listed in t's dependency list   *)
(* and both are stored.                                                    *)

DepEdges(ts) ==
    {e \in TaskIds \X TaskIds :
        /\ HasTask(ts, e[1]) /\ HasTask(ts, e[2])
        /\ Contains(TaskOf(ts, e[1]).dependencies, e[2])}

Compose(R, S) ==
    {e \in TaskIds \X TaskIds : \E b \in TaskIds : <<e[1], b>> \in R /\ <<b, e[2]>> \in S}

RECURSIVE TransitiveClosure(_)

TransitiveClosure(R) ==
    LET R2 == R \cup Compose(R, R)
    IN  IF R2 = R THEN R ELSE TransitiveClosure(R2)

HasDepCycle(ts) == \E id \in TaskIds : <<id, id>> \in TransitiveClosure(DepEdges(ts))

\* an index without the empty lists a defaultdict read leaves behind
AdjContent(adj) == [k \in TaskIds |-> IF k \in DOMAIN adj THEN adj[k] ELSE <<>>]

RevContent(rev) == [k \in TaskIds |-> IF RevHas(rev, k) THEN RevGet(rev, k) ELSE <<>>]

\* the step just taken is a call of add_task that raised DAGCycleError
AddTaskFailed == last'.op = "add_task" /\ last'.raised = "DAGCycleError"

---------------------------------------------------------------------------
(* SpecSched: the scheduler reads over every status.  The driver inserts  *)
(* the tasks of an acyclic project in any order under ids the graph does  *)
(* not hold (ids numbered so that a task depends only on earlier ids;     *)
(* cyclic and duplicate insertions are Spec's), removes tasks, writes     *)
(* statuses, and calls get_ready_tasks, get_next_task, get_blocked_tasks. *)

IdOrder == <<"t1", "t2", "t3">>

IdIndex(id) == CHOOSE i \in 1..Len(IdOrder) : IdOrder[i] = id

DependsOnEarlier(t) ==
    \A i \in 1..Len(t.dependencies) : IdIndex(t.dependencies[i]) < IdIndex(t.id)

SchedTasks ==
    {t \in Task : t.status = PENDING /\ ~t.status_is_str /\ t.priority = 1
                  /\ t.created_at = 1 /\ DependsOnEarlier(t)}

NextSched ==
    \/ \E t \in SchedTasks : ~HasTask(tasks, t.id) /\ AddTask(t)
    \/ \E id \in TaskIds : HasTask(tasks, id) /\ RemoveTask(id)
    \/ \E id \in TaskIds, st \in TaskStatus : SetStatus(id, st)
    \/ GetReadyTasks
    \/ GetNextTask
    \/ GetBlockedTasks

SpecSched == Init /\ [][NextSched]_vars

---------------------------------------------------------------------------
(* SpecOrder: the selection policy.  As SpecSched, with inserted records  *)
(* that vary in priority and creation timestamp and list at most one      *)
(* dependency; the driver's status writes are completions.                *)

OrderTasks ==
    {t \in Task : t.status = PENDING /\ ~t.status_is_str /\ Len(t.dependencies) <= 1
                  /\ DependsOnEarlier(t)}

NextOrder ==
    \/ \E t \in OrderTasks : ~HasTask(tasks, t.id) /\ AddTask(t)
    \/ \E id \in TaskIds : HasTask(tasks, id) /\ RemoveTask(id)
    \/ \E id \in TaskIds : SetStatus(id, COMPLETED)
    \/ GetReadyTasks
    \/ GetNextTask

SpecOrder == Init /\ [][NextOrder]_vars

---------------------------------------------------------------------------
(* SpecReport: the reports get_progress and is_complete over every status. *)
(* The driver inserts records built with the default status or with a     *)
(* status passed to the constructor, at most one dependency each, removes *)
(* tasks, writes statuses and calls get_blocked_tasks and                 *)
(* get_task_dependents.                                                    *)

ReportTasks ==
    {t \in Task : /\ t.priority = 1 /\ t.created_at = 1
                  /\ Len(t.dependencies) <= 1 /\ DependsOnEarlier(t)
                  /\ ~t.status_is_str => t.status = PENDING}

NextReport ==
    \/ \E t \in ReportTasks : ~HasTask(tasks, t.id) /\ AddTask(t)
    \/ \E id \in TaskIds : HasTask(tasks, id) /\ RemoveTask(id)
    \/ \E id \in TaskIds, st \in TaskStatus : SetStatus(id, st)
    \/ GetBlockedTasks
    \/ GetProgress
    \/ IsComplete
    \/ \E id \in TaskIds : GetTaskDependents(id)

SpecReport == Init /\ [][NextReport]_vars

---------------------------------------------------------------------------
(* SpecMachine: the lifecycle state machine under any sequence of         *)
(* transition (allowed or not) and reset calls and of driver writes of    *)
(* the in-flight task.                                                     *)

NextMachine ==
    \/ \E to \in LifecycleState, trigger \in Triggers : Transition(to, trigger)
    \/ Reset
    \/ \E id \in {"", "t1"} : AssignTask(id)

SpecMachine == Init /\ [][NextMachine]_vars

---------------------------------------------------------------------------
(* SpecTable: the two table accessors in every phase the machine reaches. *)

NextTable ==
    \/ \E to \in LifecycleState : Transition(to, "manual")
    \/ Reset
    \/ \E to \in LifecycleState : CanTransition(to)
    \/ GetAllowedTransitions

SpecTable == Init /\ [][NextTable]_vars

---------------------------------------------------------------------------
(* SpecHistory: the history of the machine under any sequence of          *)
(* transition (allowed or not) and reset calls, of calls of the read      *)
(* accessors, and of list operations of a caller on a returned history.   *)

NextHistory ==
    \/ \E to \in LifecycleState : Transition(to, "manual")
    \/ Reset
    \/ \E to \in LifecycleState : CanTransition(to)
    \/ GetAllowedTransitions
    \/ GetState
    \/ IsTerminalState
    \/ GetTransitionHistory
    \/ \E kind \in {"append", "pop", "reverse"} : CallerEdit(kind)

SpecHistory == Init /\ [][NextHistory]_vars

---------------------------------------------------------------------------
(* SpecAudit: audit records asked of the machine in every phase, with and *)
(* without a task in flight.                                               *)

NextAudit ==
    \/ \E to \in LifecycleState : Transition(to, "manual")
    \/ Reset
    \/ \E id \in {"", "t1"} : AssignTask(id)
    \/ \E event_type \in EventType : CreateAuditEvent(event_type)

SpecAudit == Init /\ [][NextAudit]_vars

---------------------------------------------------------------------------
(* SpecAddRace: one thread inserts tasks while a second thread calls       *)
(* remove_task, get_ready_tasks, get_next_task and get_blocked_tasks, both *)
(* step by step, and the driver writes statuses.  The embedding system     *)
(* either uses no mutex, or one that every call holds from its entry to    *)
(* its return and that a status write takes for its one step.  The         *)
(* inserted records carry one of two ids and at most one dependency, which *)
(* is the other id; each record is inserted at most once (todo holds the   *)
(* records not yet inserted), so self.tasks never outgrows its first table *)
(* and an iteration over it meets the entries in the order of the dict.    *)

RaceIds == {"t1", "t2"}

\* the thread that calls add_task
Adders == {"w1"}

\* the thread that calls remove_task and the reads
Others == {"w2"}

RaceTasks ==
    {t \in StructTasks : /\ t.id \in RaceIds /\ Len(t.dependencies) <= 1
                         /\ Range(t.dependencies) \subseteq RaceIds}

\* the records the inserting thread passes: none lists itself
AddRaceTasks == {t \in RaceTasks : t.id \notin Range(t.dependencies)}

\* the ids passed to remove_task
RemovedIds == RaceIds

\* the ids of the tasks whose status the driver writes
WrittenIds == {"t1"}

InitAddRace ==
    /\ InitGraph /\ todo = AddRaceTasks /\ InitMachine
    /\ pc = [w \in Workers |-> Outside]
    /\ lock \in {NoLock, FreeLock}

NextAddRace ==
    \/ \E w \in Adders, t \in todo : BeginAddTask(w, t)
    \/ \E w \in Adders : StoreAddTask(w)
    \/ \E w \in Adders : LookupAddTask(w)
    \/ \E w \in Adders : ForwardAddTask(w)
    \/ \E w \in Adders : ReverseAddTask(w)
    \/ \E w \in Adders : CheckAddTask(w)
    \/ \E w \in Adders : NextRootAddTask(w)
    \/ \E w \in Adders : DfsAddTask(w)
    \/ \E w \in Adders : RollbackAddTask(w)
    \/ \E w \in Others, id \in RemovedIds : BeginRemoveTask(w, id)
    \/ \E w \in Others : FetchRemoveTask(w)
    \/ \E w \in Others : ForwardRemoveTask(w)
    \/ \E w \in Others : ReverseRemoveTask(w)
    \/ \E w \in Others : DeleteRemoveTask(w)
    \/ \E w \in Others : ForwardKeyRemoveTask(w)
    \/ \E w \in Others : ReverseKeyRemoveTask(w)
    \/ \E w \in Others, op \in {"get_ready_tasks", "get_next_task"} : BeginReady(w, op)
    \/ \E w \in Others : ScanReady(w)
    \/ \E w \in Others : FilterReady(w)
    \/ \E w \in Others : DepReady(w)
    \/ \E w \in Others : BeginBlocked(w)
    \/ \E w \in Others : ScanBlocked(w)
    \/ \E w \in Others : FilterBlocked(w)
    \/ \E w \in Others : DepBlocked(w)
    \/ \E w \in Others : MarkBlocked(w)
    \/ \E id \in WrittenIds, st \in {COMPLETED, FAILED} : Unheld /\ SetStatus(id, st)

SpecAddRace == InitAddRace /\ [][NextAddRace]_vars

---------------------------------------------------------------------------
(* SpecTransitionRace: the threads call transition on one machine.  The   *)
(* embedding system either uses no mutex, or one that transition holds    *)
(* from its check to its return.                                           *)

InitTransitionRace ==
    /\ InitGraph /\ todo = {} /\ InitMachine
    /\ pc = [w \in Workers |-> Outside]
    /\ lock \in {NoLock, FreeLock}

NextTransitionRace ==
    \/ \E w \in Workers, to \in LifecycleState : CheckTransition(w, to, "manual")
    \/ \E w \in Workers : BuildTransition(w)
    \/ \E w \in Workers : StorePrevious(w)
    \/ \E w \in Workers : StoreCurrent(w)
    \/ \E w \in Workers : AppendTransition(w)

SpecTransitionRace == InitTransitionRace /\ [][NextTransitionRace]_vars

---------------------------------------------------------------------------
(* SpecDispatch: parallel dispatch.  The driver inserts the tasks of a    *)
(* project (as in SpecSched, so a dependency can be absent), then the      *)
(* workers take, run and report tasks; get_next_task runs step by step.   *)
(* The embedding system either uses no mutex or the one of the locking    *)
(* discipline.                                                             *)

\* no task has been given out yet
NotStarted ==
    /\ \A w \in Workers : pc[w] = Outside
    /\ \A i \in 1..Len(tasks) : tasks[i].status = PENDING

InitDispatch ==
    /\ InitGraph /\ todo = {} /\ InitMachine
    /\ pc = [w \in Workers |-> Outside]
    /\ lock \in {NoLock, FreeLock}

NextDispatch ==
    \/ \E t \in SchedTasks : NotStarted /\ ~HasTask(tasks, t.id) /\ AddTask(t)
    \/ \E w \in Workers : TakeNext(w)
    \/ \E w \in Workers : ScanReady(w)
    \/ \E w \in Workers : FilterReady(w)
    \/ \E w \in Workers : DepReady(w)
    \/ \E w \in Workers : MarkRunning(w)
    \/ \E w \in Workers, st \in {COMPLETED, FAILED} : Report(w, st)

SpecDispatch == InitDispatch /\ [][NextDispatch]_vars

---------------------------------------------------------------------------
(* SpecReaders: the threads run get_ready_tasks, get_next_task and         *)
(* topological_sort step by step and call can_transition, in any          *)
(* interleaving.  add_task, remove_task, the status writes and transition *)
(* run while no thread is inside a read.                                   *)

NextReaders ==
    \/ \E t \in RaceTasks : NoReader /\ ~HasTask(tasks, t.id) /\ AddTask(t)
    \/ \E id \in RaceIds : NoReader /\ RemoveTask(id)
    \/ \E id \in RaceIds : NoReader /\ SetStatus(id, COMPLETED)
    \/ NoReader /\ Transition(PLANNING, "manual")
    \/ \E w \in Workers, op \in {"get_ready_tasks", "get_next_task"} : BeginReady(w, op)
    \/ \E w \in Workers : ScanReady(w)
    \/ \E w \in Workers : FilterReady(w)
    \/ \E w \in Workers : DepReady(w)
    \/ \E w \in Workers : BeginSort(w)
    \/ \E w \in Workers : PassSort(w)
    \/ \E w \in Workers : ReturnSort(w)
    \/ \E to \in {PLANNING, SCAFFOLDING} : CanTransition(to)

SpecReaders == Init /\ [][NextReaders]_vars

---------------------------------------------------------------------------
(* SpecDriver: the sequential driver.  It inserts the tasks of an acyclic *)
(* project in any order under ids the graph does not hold, at any point   *)
(* of the run, and never removes a task or resets a status.               *)

NextDriver ==
    \/ \E t \in SchedTasks : ~HasTask(tasks, t.id) /\ AddTask(t)
    \/ \E op \in {"get_ready_tasks", "get_next_task"} : DriverRead(op)
    \/ \E id \in TaskIds : DriverStart(id)
    \/ \E id \in TaskIds, st \in {COMPLETED, FAILED} : DriverFinish(id, st)

SpecDriver == Init /\ [][NextDriver]_vars

---------------------------------------------------------------------------
(* SpecLoop: the driver inserts the tasks of an acyclic project, all      *)
(* pending, and once every dependency id is stored runs its loop.         *)
(* FairLoop adds that a driver inside its loop takes its next step: no    *)
(* operation of the graph blocks, and a task that runs ends.               *)

NextLoop ==
    \/ \E t \in SchedTasks : pc[Driver] = Outside /\ ~HasTask(tasks, t.id) /\ AddTask(t)
    \/ LoopBegin
    \/ LoopBlocked
    \/ LoopNext
    \/ \E st \in {COMPLETED, FAILED} : LoopReport(st)

SpecLoop == Init /\ [][NextLoop]_vars

LoopStep == LoopBlocked \/ LoopNext \/ \E st \in {COMPLETED, FAILED} : LoopReport(st)

FairLoop == SpecLoop /\ WF_vars(LoopStep)

---------------------------------------------------------------------------
(* SpecStatus: every operation of the graph over records of every status. *)
(* The inserted records carry one of two ids, at most one dependency, and *)
(* any status (passed to the constructor, or the default); an id can be   *)
(* inserted again, and the driver marks tasks running, completed, failed. *)

StatusTasks ==
    {t \in Task : /\ t.id \in RaceIds /\ Len(t.dependencies) <= 1
                  /\ Range(t.dependencies) \subseteq RaceIds
                  /\ t.priority = 1 /\ t.created_at = 1
                  /\ ~t.status_is_str => t.status = PENDING}

NextStatus ==
    \/ \E t \in StatusTasks : AddTask(t)
    \/ \E id \in RaceIds : RemoveTask(id)
    \/ \E id \in RaceIds, st \in {RUNNING, COMPLETED, FAILED} : SetStatus(id, st)
    \/ GetReadyTasks
    \/ GetNextTask
    \/ GetBlockedTasks
    \/ TopologicalSort
    \/ Validate
    \/ GetProgress
    \/ IsComplete
    \/ \E id \in RaceIds : GetTaskDependents(id)

SpecStatus == Init /\ [][NextStatus]_vars

---------------------------------------------------------------------------
(* SpecRecompute: the blocked classification over time.  The driver       *)
(* inserts an acyclic project, marks tasks running, completed or failed,  *)
(* resets a task to pending, and calls get_blocked_tasks and              *)
(* get_ready_tasks; only get_blocked_tasks writes the status blocked.     *)

NextRecompute ==
    \/ \E t \in SchedTasks : ~HasTask(tasks, t.id) /\ AddTask(t)
    \/ \E id \in TaskIds, st \in {PENDING, RUNNING, COMPLETED, FAILED} : SetStatus(id, st)
    \/ GetBlockedTasks
    \/ GetReadyTasks

SpecRecompute == Init /\ [][NextRecompute]_vars

---------------------------------------------------------------------------
(* SpecWalk: the walks of the machine through the transition table:       *)
(* transition calls, allowed or not, and no reset.                         *)

NextWalk == \E to \in LifecycleState : Transition(to, "manual")

SpecWalk == Init /\ [][NextWalk]_vars

---------------------------------------------------------------------------
(* SpecInsert: a set of task records with distinct ids and an acyclic     *)
(* dependency relation is inserted into an empty graph in any order, and  *)
(* then sorted.                                                            *)

RECURSIVE SetToSeq(_)

SetToSeq(S) ==
    IF S = {} THEN <<>>
    ELSE LET x == CHOOSE y \in S : TRUE IN <<x>> \o SetToSeq(S \ {x})

StructTask(id, deps) ==
    [id |-> id, dependencies |-> deps, status |-> PENDING, status_is_str |-> FALSE,
     priority |-> 1, created_at |-> 1]

TaskSetsOver(I) == {{StructTask(id, f[id]) : id \in I} : f \in [I -> DepLists]}

AcyclicTaskSets ==
    UNION {{S \in TaskSetsOver(I) : ~HasDepCycle(SetToSeq(S))} : I \in SUBSET TaskIds}

InitInsert == InitGraph /\ todo \in AcyclicTaskSets /\ InitMachine /\ InitWorkers

\* dag.add_task(t) for a record not yet inserted
InsertTask(t) ==
    /\ LET r == add_task(G, t)
       IN  SetGraph(r.g) /\ last' = RetId("add_task", t.id, r.raised, <<>>,
                                         add_task_warnings(G, t))
    /\ todo' = todo \ {t}
    /\ UNCHANGED <<machine, workers>>

NextInsert ==
    \/ \E t \in todo : InsertTask(t)
    \/ todo = {} /\ TopologicalSort

SpecInsert == InitInsert /\ [][NextInsert]_vars

---------------------------------------------------------------------------
(* SpecCycleInsert: a set of task records with distinct ids whose         *)
(* dependency lists form a cycle is inserted into an empty graph in any   *)
(* order, up to the insertion that raises.                                 *)

CyclicTaskSets ==
    UNION {{S \in TaskSetsOver(I) : HasDepCycle(SetToSeq(S))} : I \in SUBSET TaskIds}

InitCycleInsert == InitGraph /\ todo \in CyclicTaskSets /\ InitMachine /\ InitWorkers

NextCycleInsert == \E t \in todo : last.raised = "" /\ InsertTask(t)

SpecCycleInsert == InitCycleInsert /\ [][NextCycleInsert]_vars

---------------------------------------------------------------------------
\* C1: after any sequence of AddTask and RemoveTask calls the dependency
\* relation among the tasks present in the graph contains no cycle.
C1_Acyclic == ~HasDepCycle(tasks)

\* C2: an AddTask call that fails with CycleError leaves the stored task
\* records and the contents of both adjacency indexes as they were before
\* the call.
C2_Rollback ==
    [][AddTaskFailed =>
          /\ tasks' = tasks
          /\ AdjContent(adjacency_list') = AdjContent(adjacency_list)
          /\ RevContent(reverse_adjacency') = RevContent(reverse_adjacency)]_vars

\* C3: once an AddTask call has failed with CycleError, an AddTask of any
\* task whose dependency list closes no cycle with the tasks present
\* succeeds, and TopologicalSort on the present tasks succeeds when they
\* hold no cycle.
C3_Recoverable ==
    (last.op = "add_task" /\ last.raised = "DAGCycleError") =>
        /\ \A t \in StructTasks :
              ~HasDepCycle(TaskPut(tasks, t)) => add_task(G, t).raised = ""
        /\ ~HasDepCycle(tasks) => topological_sort(G).raised = ""

\* C5: TopologicalSort fails with CycleError exactly when the dependency
\* relation among the present tasks has a cycle, the depth-first detector
\* gives the same verdict, and a call that does not fail returns every
\* present task.
C5_SortVerdict ==
    LET r == topological_sort(G)
    IN  /\ (r.raised = "DAGCycleError") <=> HasDepCycle(tasks)
        /\ has_cycle(G).found <=> HasDepCycle(tasks)
        /\ r.raised \in {"", "DAGCycleError"}
        /\ r.raised = "" =>
              Len(r.result) = Len(tasks) /\ Range(r.result) = TaskIdSet(tasks)

\* position of an id in a list of ids
Pos(s, x) == CHOOSE i \in 1..Len(s) : s[i] = x

\* C4: for every acyclic set of tasks with distinct ids and every order of
\* inserting them into an empty graph, every AddTask succeeds and the
\* TopologicalSort that follows returns every task exactly once, each
\* after all of its dependencies.
C4_InsertAnyOrder ==
    /\ last.op = "add_task" => last.raised = ""
    /\ last.op = "topological_sort" =>
          /\ last.raised = ""
          /\ Len(last.result) = Len(tasks)
          /\ Range(last.result) = TaskIdSet(tasks)
          /\ \A e \in DepEdges(tasks) : Pos(last.result, e[2]) < Pos(last.result, e[1])

---------------------------------------------------------------------------
(* The scheduler claims, stated over the stored records.                   *)

Present == TaskIdSet(tasks)

StatusOf(id) == TaskOf(tasks, id).status

DepsOf(id) == Range(TaskOf(tasks, id).dependencies)

\* pending, with every listed dependency completed or absent
Eligible(id) ==
    /\ StatusOf(id) = PENDING
    /\ \A d \in DepsOf(id) : d \notin Present \/ StatusOf(d) = COMPLETED

NoDuplicates(s) == \A i, j \in 1..Len(s) : i # j => s[i] # s[j]

\* C6: GetReadyTasks returns exactly the pending tasks each of whose listed
\* dependencies is completed or absent from the graph, and so the empty
\* list exactly when there is no such task.
C6_ReadyExact ==
    LET ready == get_ready_tasks(G)
    IN  /\ Range(ready) = {id \in Present : Eligible(id)}
        /\ NoDuplicates(ready)
        /\ ready = <<>> <=> ~\E id \in Present : Eligible(id)
        /\ last.op = "get_ready_tasks" => last.result = ready

\* a call that returns a task with one dependency absent and the other
\* completed
C6_Witness ==
    /\ last.op = "get_ready_tasks"
    /\ last.result = <<"t3">>
    /\ DepsOf("t3") = {"t1", "t2"}
    /\ "t1" \notin Present
    /\ "t2" \in Present /\ StatusOf("t2") = COMPLETED

\* C7: GetReadyTasks is ordered by priority ascending and, among equal
\* priorities, by creation timestamp ascending, whatever the order the
\* tasks were inserted in; GetNextTask returns its first element, or none
\* when it is empty, and returns the same task when called again.
C7_SelectionPolicy ==
    LET ready == ready_tasks(G)
    IN  /\ \A i, j \in 1..Len(ready) :
              i < j => \/ ready[i].priority < ready[j].priority
                       \/ /\ ready[i].priority = ready[j].priority
                          /\ ready[i].created_at <= ready[j].created_at
        /\ get_next_task(G) = IF ready = <<>> THEN <<>> ELSE <<ready[1].id>>
        /\ last.op = "get_next_task" => last.result = get_next_task(G)
        /\ (\A i, j \in 1..Len(ready) :
                i # j => <<ready[i].priority, ready[i].created_at>>
                             # <<ready[j].priority, ready[j].created_at>>)
              => \A p \in Permutations(1..Len(tasks)) :
                    get_ready_tasks(Graph([i \in 1..Len(tasks) |-> tasks[p[i]]],
                                          adjacency_list, reverse_adjacency))
                        = get_ready_tasks(G)

\* the task inserted last comes first: a lower priority number wins, and an
\* earlier timestamp wins among equal priorities
C7_Witness ==
    /\ last.op = "get_next_task"
    /\ Len(tasks) = 3
    /\ Len(get_ready_tasks(G)) = 3
    /\ last.result = <<tasks[3].id>>
    /\ tasks[3].priority = tasks[2].priority /\ tasks[3].created_at < tasks[2].created_at
    /\ tasks[3].priority < tasks[1].priority

NonTerminal(id) == StatusOf(id) \notin {COMPLETED, FAILED, SKIPPED}

HasFailedDep(id) == \E d \in DepsOf(id) : d \in Present /\ StatusOf(d) = FAILED

\* the step is external code writing the status of task id, or replacing
\* or removing its record
ResetsTask(id) == last'.op \in {"set_status", "add_task", "remove_task"} /\ last'.id = id

\* C8: a non-terminal task with a present failed dependency is blocked
\* after the next GetBlockedTasks call; a blocked task is not returned by
\* GetReadyTasks or GetNextTask, and stays blocked whatever happens to its
\* dependencies, until external code resets its own status.
C8_BlockedStays ==
    /\ [](last.op = "get_blocked_tasks" =>
             \A id \in Present : NonTerminal(id) /\ HasFailedDep(id)
                                    => StatusOf(id) = BLOCKED /\ Contains(last.result, id))
    /\ [](\A id \in Present :
             StatusOf(id) = BLOCKED =>
                 ~Contains(get_ready_tasks(G), id) /\ get_next_task(G) # <<id>>)
    /\ [][\A id \in Present :
             StatusOf(id) = BLOCKED /\ ~ResetsTask(id) =>
                 HasTask(tasks', id) /\ TaskOf(tasks', id).status = BLOCKED]_vars

\* the chain t1, t2 (dep t1), t3 (dep t2): t1 completed, t2 failed, t3
\* blocked by the call and still blocked, and not ready, after the failed
\* dependency was completed
C8_Witness ==
    /\ Present = {"t1", "t2", "t3"}
    /\ DepsOf("t2") = {"t1"} /\ DepsOf("t3") = {"t2"}
    /\ StatusOf("t1") = COMPLETED /\ StatusOf("t2") = COMPLETED
    /\ StatusOf("t3") = BLOCKED
    /\ last.op = "get_ready_tasks" /\ last.result = <<>>

C8_Scenario ==
    /\ Present = {"t1", "t2", "t3"}
    /\ DepsOf("t2") = {"t1"} /\ DepsOf("t3") = {"t2"}
    /\ StatusOf("t1") = COMPLETED /\ StatusOf("t2") = FAILED
    /\ last.op = "get_blocked_tasks" /\ last.result = <<"t3">>
    /\ get_ready_tasks(G) = <<>>

\* C9: GetBlockedTasks returns exactly the pending, running or blocked
\* tasks with at least one present failed dependency, sets the status of
\* exactly those to blocked, and changes nothing else.
C9_BlockedExact ==
    [][last'.op = "get_blocked_tasks" =>
          LET B == {id \in Present : NonTerminal(id) /\ HasFailedDep(id)}
          IN  /\ Range(last'.result) = B
              /\ NoDuplicates(last'.result)
              /\ tasks' = [i \in 1..Len(tasks) |->
                              IF tasks[i].id \in B
                              THEN [tasks[i] EXCEPT !.status = BLOCKED,
                                                    !.status_is_str = FALSE]
                              ELSE tasks[i]]
              /\ adjacency_list' = adjacency_list
              /\ reverse_adjacency' = reverse_adjacency]_vars

\* a call that returns a pending task with one failed and one completed
\* dependency while a failed task that depends on a failed task is left
C9_Witness ==
    /\ last.op = "get_blocked_tasks"
    /\ Present = {"t1", "t2", "t3"}
    /\ last.result = <<"t3">>
    /\ DepsOf("t3") = {"t1", "t2"}
    /\ StatusOf("t1") = FAILED
    /\ StatusOf("t2") = FAILED /\ DepsOf("t2") = {"t1"}

\* C10: RemoveTask of a present task takes it out of the task set (the
\* count drops by one, GetTask returns none), GetTaskDependents and
\* GetTaskDependencies of every task no longer list it, and the ready set
\* treats its id as an absent, satisfied dependency.
C10_RemovePresent ==
    [][(last'.op = "remove_task" /\ HasTask(tasks, last'.id)) =>
          LET id == last'.id
              g2 == Graph(tasks', adjacency_list', reverse_adjacency')
          IN  /\ Len(tasks') = Len(tasks) - 1
              /\ TaskIdSet(tasks') = Present \ {id}
              /\ get_task(g2, id) = NoTask
              /\ \A x \in TaskIds :
                    /\ ~Contains(get_task_dependents(g2, x), id)
                    /\ ~Contains(get_task_dependencies(g2, x), id)
              /\ \A x \in Present \ {id} :
                    Contains(get_ready_tasks(g2), x) <=>
                        /\ StatusOf(x) = PENDING
                        /\ \A d \in DepsOf(x) \ {id} :
                              d \notin Present \/ StatusOf(d) = COMPLETED]_vars

\* t2 listed the removed t1, which t3 depended on through t2's forward list;
\* after the removal t2 is ready
C10_Witness ==
    /\ last.op = "remove_task" /\ last.warned = {} /\ last.id = "t1"
    /\ Len(tasks) = 2
    /\ HasTask(tasks, "t2") /\ Contains(TaskOf(tasks, "t2").dependencies, "t1")
    /\ Contains(get_ready_tasks(G), "t2")
    /\ HasTask(tasks, "t3") /\ Contains(TaskOf(tasks, "t3").dependencies, "t2")

---------------------------------------------------------------------------
\* C11: RemoveTask with an id that is not in the graph raises no error and
\* leaves the task records (and so every status) and both adjacency
\* indexes, the edges recorded for that id as a forward-referenced
\* dependency included, unchanged.
C11_RemoveAbsent ==
    [][(last'.op = "remove_task" /\ ~HasTask(tasks, last'.id)) =>
          /\ last'.raised = ""
          /\ tasks' = tasks
          /\ adjacency_list' = adjacency_list
          /\ reverse_adjacency' = reverse_adjacency]_vars

\* t2 is removed while absent and while t1 lists it: the forward entry
\* t2 -> t1 recorded for the forward reference is still there
C11_Witness ==
    /\ last.op = "remove_task" /\ last.id = "t2" /\ last.warned = {"not found"}
    /\ ~HasTask(tasks, "t2")
    /\ HasTask(tasks, "t1") /\ Contains(TaskOf(tasks, "t1").dependencies, "t2")
    /\ "t2" \in DOMAIN adjacency_list /\ adjacency_list["t2"] = <<"t1">>

\* C12: after any sequence of AddTask and RemoveTask calls, for all present
\* tasks t and d, t is in GetTaskDependents(d) exactly when d is in
\* GetTaskDependencies(t), exactly when d is listed in t's dependency list.
C12_EdgesDerived ==
    \A t \in Present, d \in Present :
        /\ Contains(get_task_dependents(G, d), t) <=> Contains(get_task_dependencies(G, t), d)
        /\ Contains(get_task_dependencies(G, t), d) <=> d \in DepsOf(t)

\* C13: AddTask with an id already present succeeds when no cycle results,
\* keeps the task count and makes GetTask return the new record; and
\* applying AddTask again with the task just inserted leaves the same task
\* records and the same adjacency indexes, each edge recorded once.
C13_ReplaceIdempotent ==
    /\ \A t \in StructTasks :
          (HasTask(tasks, t.id) /\ ~HasDepCycle(TaskPut(tasks, t))) =>
              LET r == add_task(G, t)
              IN  /\ r.raised = ""
                  /\ Len(r.g.tasks) = Len(tasks)
                  /\ get_task(r.g, t.id) = t
    /\ (last.op = "add_task" /\ last.raised = "") =>
          LET r == add_task(G, TaskOf(tasks, last.id))
          IN  /\ r.raised = ""
              /\ r.g.tasks = tasks
              /\ AdjContent(r.g.adjacency_list) = AdjContent(adjacency_list)
              /\ RevContent(r.g.reverse_adjacency) = RevContent(reverse_adjacency)
              /\ \A d \in TaskIds : NoDuplicates(get_task_dependents(r.g, d))

---------------------------------------------------------------------------
(* The diagnostic claims.                                                  *)

\* C14: in every graph state reachable by AddTask (successful or rolled
\* back) and RemoveTask, Validate returns a list of findings and raises
\* neither CycleError nor any other error.
C14_ValidateNeverRaises == last.op = "validate" => last.raised = ""

\* the (task, dependency id) pairs whose dependency id is not stored
Dangling(ts) ==
    {e \in TaskIds \X TaskIds :
        /\ HasTask(ts, e[1]) /\ ~HasTask(ts, e[2])
        /\ Contains(TaskOf(ts, e[1]).dependencies, e[2])}

\* how many times x occurs in the list s
Occurrences(s, x) == Cardinality({i \in 1..Len(s) : s[i] = x})

\* the topological result is shorter than the task count although the
\* dependency relation of the present tasks has no cycle
ShortWithoutCycle(g) == topological_sort(g).raised # "" /\ ~HasDepCycle(g.tasks)

\* C15: Validate returns a cycle finding exactly when the dependency
\* relation of the present tasks has a cycle, one dangling-reference finding
\* for every (task, dependency id) pair whose dependency id is absent and
\* for no other pair, an unreachable-tasks finding whenever the topological
\* result is shorter than the task count for a reason other than a cycle,
\* and the empty list exactly when none of these problems exists.
C15_FindingsExact ==
    [][last'.op = "validate" =>
          LET errors == last'.result
          IN  /\ last'.raised = ""
              /\ Contains(errors, CycleFinding) <=> HasDepCycle(tasks)
              /\ \A e \in TaskIds \X TaskIds :
                    Occurrences(errors, MissingFinding(e[1], e[2]))
                        = IF e \in Dangling(tasks) THEN 1 ELSE 0
              /\ ShortWithoutCycle(G) => Contains(errors, UnreachableFinding)
              /\ errors = <<>> <=>
                    ~HasDepCycle(tasks) /\ Dangling(tasks) = {} /\ ~ShortWithoutCycle(G)]_vars

---------------------------------------------------------------------------
(* The report claims.                                                      *)

\* the present tasks whose status is st
WithStatus(st) == {i \in 1..Len(tasks) : tasks[i].status = st}

\* C16: IsComplete returns true exactly when every task in the graph has
\* status completed, failed or skipped: it is false whenever some task is
\* pending, running or blocked, and true for the empty graph.
C16_IsComplete ==
    /\ is_complete(G) <=>
          WithStatus(PENDING) \cup WithStatus(RUNNING) \cup WithStatus(BLOCKED) = {}
    /\ is_complete(G) <=>
          Cardinality(WithStatus(COMPLETED) \cup WithStatus(FAILED) \cup WithStatus(SKIPPED))
              = Len(tasks)
    /\ tasks = <<>> => is_complete(G)
    /\ last.op = "is_complete" => last.result = is_complete(G)

\* the call returns true for three tasks, one completed, one failed and one
\* skipped, the completed one built with its status passed to the constructor
C16_Witness ==
    /\ last.op = "is_complete" /\ last.result = TRUE
    /\ Len(tasks) = 3
    /\ \E i \in WithStatus(COMPLETED) : tasks[i].status_is_str
    /\ WithStatus(FAILED) # {} /\ WithStatus(SKIPPED) # {}

\* the call returns false while the one task that is not terminal is blocked
C16_BlockedWitness ==
    /\ last.op = "is_complete" /\ last.result = FALSE
    /\ Len(tasks) = 2
    /\ Cardinality(WithStatus(BLOCKED)) = 1 /\ Cardinality(WithStatus(FAILED)) = 1

RECURSIVE SumOver(_, _)

SumOver(f, S) ==
    IF S = {} THEN 0
    ELSE LET k == CHOOSE x \in S : TRUE IN f[k] + SumOver(f, S \ {k})

\* C17: in every reachable state Progress reports, for each of the six
\* statuses, the number of present tasks with that status, a total equal to
\* the number of present tasks, and six counts that sum to the total.
C17_Progress ==
    last.op = "get_progress" =>
        /\ last.raised = ""
        /\ \A st \in TaskStatus : last.result[st] = Cardinality(WithStatus(st))
        /\ last.result["total"] = Len(tasks)
        /\ SumOver(last.result, TaskStatus) = last.result["total"]

---------------------------------------------------------------------------
(* The state machine claims.                                               *)

\* the pairs (current phase, target phase) of the transition table
AllowedPairs ==
    {<<IDLE, PLANNING>>,
     <<PLANNING, SCAFFOLDING>>, <<PLANNING, STATE_FAILED>>,
     <<SCAFFOLDING, BUILDING>>, <<SCAFFOLDING, STATE_FAILED>>,
     <<BUILDING, VERIFYING>>, <<BUILDING, STATE_FAILED>>,
     <<VERIFYING, DEPLOYING>>, <<VERIFYING, BUILDING>>, <<VERIFYING, STATE_FAILED>>,
     <<DEPLOYING, OBSERVING>>, <<DEPLOYING, STATE_FAILED>>,
     <<OBSERVING, MAINTAINING>>, <<OBSERVING, IDLE>>,
     <<MAINTAINING, BUILDING>>, <<MAINTAINING, OBSERVING>>, <<MAINTAINING, IDLE>>,
     <<MAINTAINING, STATE_FAILED>>,
     <<STATE_FAILED, IDLE>>}

\* C18: in every phase and for every target phase, CanTransition is true,
\* and GetAllowedTransitions contains the target, exactly when (current,
\* target) is a pair of the transition table; calling either accessor
\* changes nothing of the machine.
C18_TransitionTable ==
    /\ [](\A to \in LifecycleState :
             /\ can_transition(M, to) <=> <<current_state, to>> \in AllowedPairs
             /\ Contains(get_allowed_transitions(M), to)
                    <=> <<current_state, to>> \in AllowedPairs)
    /\ [][last'.op = "can_transition" =>
             /\ last'.result = (<<current_state, last'.id>> \in AllowedPairs)
             /\ UNCHANGED machine]_vars
    /\ [][last'.op = "get_allowed_transitions" =>
             /\ Range(last'.result) = {to \in LifecycleState :
                                          <<current_state, to>> \in AllowedPairs}
             /\ UNCHANGED machine]_vars

\* in MAINTAINING, the last phase the machine reaches, CanTransition accepts
\* the step back to OBSERVING
C18_Witness ==
    /\ last.op = "can_transition" /\ last.id = OBSERVING /\ last.result = TRUE
    /\ current_state = MAINTAINING
    /\ Len(transition_history) = 7

\* C19: a Transition request that the table does not allow from the current
\* phase fails with StateTransitionError and leaves current phase, previous
\* phase, history and in-flight task unchanged; from Idle every target
\* other than Planning is rejected.
C19_RejectedTransition ==
    [][last'.op = "transition" =>
          /\ <<current_state, last'.id>> \notin AllowedPairs =>
                 /\ last'.raised = "StateTransitionError"
                 /\ last'.result = <<>>
                 /\ UNCHANGED machine
          /\ (current_state = IDLE /\ last'.id # PLANNING) =>
                 /\ last'.raised = "StateTransitionError"
                 /\ current_state' = IDLE /\ transition_history' = transition_history]_vars

\* Building is refused in Idle after two recorded transitions, with a task
\* in flight
C19_Witness ==
    /\ last.op = "transition" /\ last.raised = "StateTransitionError"
    /\ last.id = BUILDING
    /\ current_state = IDLE /\ previous_state = PLANNING
    /\ Len(transition_history) = 2
    /\ current_task = "t1"

\* C20: a Transition that the table allows sets the previous phase to the
\* old current phase and the current phase to the target, appends exactly
\* one record {from = old current, to, trigger} at the end of the history,
\* returns that record, and leaves the in-flight task and the earlier
\* records unchanged.
C20_AllowedTransition ==
    [][(last'.op = "transition" /\ <<current_state, last'.id>> \in AllowedPairs) =>
          LET record == StateTransition(current_state, last'.id, last'.trigger)
          IN  /\ last'.raised = ""
              /\ previous_state' = current_state
              /\ current_state' = last'.id
              /\ transition_history' = Append(transition_history, record)
              /\ last'.result = <<record>>
              /\ current_task' = current_task]_vars

\* the third transition of Idle, Planning, Scaffolding, Building is made with
\* the trigger "test" and a task in flight
C20_Witness ==
    /\ last.op = "transition" /\ last.raised = "" /\ last.trigger = "test"
    /\ current_state = BUILDING /\ previous_state = SCAFFOLDING
    /\ Len(transition_history) = 3
    /\ transition_history[3] = StateTransition(SCAFFOLDING, BUILDING, "test")
    /\ transition_history[1] = StateTransition(IDLE, PLANNING, "manual")
    /\ current_task = "t1"

---------------------------------------------------------------------------
(* The history claims.                                                     *)

\* the to-phase of the last record, Idle for the empty history
LastTo(history) ==
    IF history = <<>> THEN IDLE ELSE history[Len(history)].to_state

\* C21 as stated: after any sequence of Transition and Reset calls the first
\* record's from-phase is Idle, each record's from-phase equals the
\* preceding record's to-phase, and the current phase equals the last
\* record's to-phase (Idle when the history is empty).
C21_HistoryChain ==
    /\ transition_history # <<>> => transition_history[1].from_state = IDLE
    /\ \A i \in 1..(Len(transition_history) - 1) :
           transition_history[i + 1].from_state = transition_history[i].to_state
    /\ current_state = LastTo(transition_history)

\* C21 amended: the history is the ordered account of the successful
\* Transition calls, and Reset adds no record.  Every record is a pair of
\* the transition table, the first record's from-phase is Idle, each
\* record's from-phase is the phase that was current when it was appended
\* (the preceding record's to-phase, or Idle when a Reset came in between),
\* and the current phase is the last record's to-phase until a Reset makes
\* it Idle.
C21_HistoryOfTransitions ==
    /\ [](/\ transition_history # <<>> => transition_history[1].from_state = IDLE
          /\ \A i \in 1..Len(transition_history) :
                 <<transition_history[i].from_state, transition_history[i].to_state>>
                     \in AllowedPairs
          /\ \A i \in 1..(Len(transition_history) - 1) :
                 transition_history[i + 1].from_state
                     \in {transition_history[i].to_state, IDLE}
          /\ current_state \in {LastTo(transition_history), IDLE})
    /\ [][(last'.op = "transition" /\ last'.raised = "") =>
             /\ Len(transition_history') = Len(transition_history) + 1
             /\ transition_history'[Len(transition_history')].from_state = current_state
             /\ current_state' = LastTo(transition_history')]_vars
    /\ [][last'.op = "reset" =>
             /\ current_state' = IDLE
             /\ transition_history' = transition_history]_vars

\* Idle to Planning, a Reset, then Idle to Planning to Scaffolding: the second
\* record starts from Idle although the first ended in Planning
C21_Witness ==
    /\ last.op = "transition" /\ last.raised = ""
    /\ Len(transition_history) = 3
    /\ transition_history[1] = StateTransition(IDLE, PLANNING, "manual")
    /\ transition_history[2] = StateTransition(IDLE, PLANNING, "manual")
    /\ transition_history[3] = StateTransition(PLANNING, SCAFFOLDING, "manual")
    /\ current_state = SCAFFOLDING

\* C22: Reset is unconditional: in every phase, Failed or not, and whatever
\* the in-flight task, a Reset call can be made, does not fail, and leaves
\* the machine in Idle with no in-flight task, also where the transition
\* table has no step from the current phase to Idle.
C22_ResetUnconditional ==
    /\ [](ENABLED Reset)
    /\ [][last'.op = "reset" =>
             /\ last'.raised = ""
             /\ current_state' = IDLE
             /\ current_task' = ""]_vars

\* a Reset made in Building, from which the table has no step to Idle, after
\* three recorded transitions
C22_Witness ==
    /\ last.op = "reset" /\ "non-failed state" \in last.warned
    /\ Len(transition_history) = 3 /\ LastTo(transition_history) = BUILDING
    /\ <<BUILDING, IDLE>> \notin AllowedPairs
    /\ current_state = IDLE /\ current_task = ""

\* C23: a new machine is in Idle with no previous phase and an empty
\* history, and every call adds to the history exactly one record when it is
\* a Transition that succeeds and none otherwise (a rejected Transition, a
\* Reset, a read accessor), so that the length of the history is the number
\* of Transition calls that succeeded; after Idle, Planning, Scaffolding,
\* Building it is 3 and the phase is not terminal.
C23_HistoryLength ==
    /\ [](last.op = "init" =>
             /\ current_state = IDLE /\ previous_state = NoState
             /\ transition_history = <<>>)
    /\ [][Len(transition_history') =
             Len(transition_history)
                 + (IF last'.op = "transition" /\ last'.raised = "" THEN 1 ELSE 0)]_vars
    /\ []((transition_history = <<StateTransition(IDLE, PLANNING, "manual"),
                                   StateTransition(PLANNING, SCAFFOLDING, "manual"),
                                   StateTransition(SCAFFOLDING, BUILDING, "manual")>>
            /\ current_state = BUILDING)
              => Len(transition_history) = 3 /\ ~is_terminal_state(M))

\* after the three transitions of the scenario and a Reset, IsTerminalState
\* is asked in Idle: the history still holds the three records
C23_Witness ==
    /\ last.op = "is_terminal_state" /\ last.result = TRUE
    /\ current_state = IDLE /\ previous_state = SCAFFOLDING
    /\ transition_history = <<StateTransition(IDLE, PLANNING, "manual"),
                               StateTransition(PLANNING, SCAFFOLDING, "manual"),
                               StateTransition(SCAFFOLDING, BUILDING, "manual")>>

\* the scenario itself: three transitions, then IsTerminalState answers false
C23_Scenario ==
    /\ last.op = "is_terminal_state" /\ last.result = FALSE
    /\ current_state = BUILDING /\ Len(transition_history) = 3

\* s is an initial part of t
IsPrefix(s, t) == Len(s) <= Len(t) /\ SubSeq(t, 1, Len(s)) = s

\* C24: the history is append-only: every step leaves the history it found
\* as an initial part of the history it leaves (no record removed, reordered
\* or altered), so an earlier history is a prefix of every later one; and
\* GetTransitionHistory returns a copy with the records of the history, so
\* that a caller's adding to, removing from or reordering the returned list
\* leaves the machine's history as it was.
C24_AppendOnly ==
    /\ [][IsPrefix(transition_history, transition_history')]_vars
    /\ [][last'.op = "get_transition_history" =>
             /\ last'.result = transition_history
             /\ UNCHANGED machine]_vars
    /\ [][last'.op = "caller_edit" =>
             /\ last'.result # last.result
             /\ UNCHANGED machine]_vars

\* the caller has reversed the returned list of three records and removed
\* its first element; the machine still holds the three records in order
C24_Witness ==
    /\ last.op = "caller_edit" /\ last.edits = 2
    /\ last.result = <<StateTransition(PLANNING, SCAFFOLDING, "manual"),
                        StateTransition(IDLE, PLANNING, "manual")>>
    /\ transition_history = <<StateTransition(IDLE, PLANNING, "manual"),
                               StateTransition(PLANNING, SCAFFOLDING, "manual"),
                               StateTransition(SCAFFOLDING, BUILDING, "manual")>>

---------------------------------------------------------------------------
(* The transition table as a graph.                                        *)

\* the machine in phase p, as can_transition reads it
InPhase(p) == Machine(p, NoState, <<>>, "")

\* the phases one allowed transition away from p
Successors(p) == {q \in LifecycleState : can_transition(InPhase(p), q)}

RECURSIVE ReachFrom(_)

\* the phases that some sequence of one or more allowed transitions reaches
\* from a phase of S, together with S
ReachFrom(S) ==
    LET T == S \cup UNION {Successors(p) : p \in S}
    IN  IF T = S THEN S ELSE ReachFrom(T)

\* the phases reached from p by one or more allowed transitions
ReachAfter(p) == ReachFrom(Successors(p))

\* a transition call that the table allows
AllowedStep(to) == can_transition(M, to) /\ Transition(to, "manual")

\* C25: every phase is reachable from Idle by a sequence of allowed
\* transitions; Idle and Failed are each reachable from another phase; every
\* phase has an allowed outgoing transition, so that a walk along the table
\* never gets stuck; and Idle is reachable from every phase by allowed
\* transitions alone, without Reset.
C25_TableConnected ==
    /\ \A p \in LifecycleState : p \in ReachFrom({IDLE})
    /\ \E p \in LifecycleState \ {IDLE} : IDLE \in Successors(p)
    /\ \E p \in LifecycleState \ {STATE_FAILED} : STATE_FAILED \in Successors(p)
    /\ \A p \in LifecycleState : Successors(p) # {}
    /\ \A p \in LifecycleState : IDLE \in ReachAfter(p)
    /\ get_allowed_transitions(M) # <<>>
    /\ IDLE \in ReachAfter(current_state)
    /\ Len(transition_history) < MaxHistory =>
           \E to \in LifecycleState : ENABLED AllowedStep(to)

\* a walk of allowed transitions alone that has gone through Planning and
\* Failed and come back to Idle, and on to Building
C25_Witness ==
    /\ Len(transition_history) = 6
    /\ transition_history[2].to_state = STATE_FAILED
    /\ transition_history[3] = StateTransition(STATE_FAILED, IDLE, "manual")
    /\ current_state = BUILDING
    /\ C21_HistoryChain

---------------------------------------------------------------------------
(* The accessor claims of the state machine.                               *)

\* C26: in every state that Transition and Reset calls reach, IsTerminalState
\* returns true if and only if the current phase is Idle or Failed, and the
\* call changes nothing of the machine.
C26_TerminalState ==
    /\ [](is_terminal_state(M) <=> (current_state = IDLE \/ current_state = STATE_FAILED))
    /\ [][last'.op = "is_terminal_state" =>
             /\ last'.result = (current_state = IDLE \/ current_state = STATE_FAILED)
             /\ UNCHANGED machine]_vars

\* IsTerminalState answers true in Failed, entered from Verifying
C26_Witness ==
    /\ last.op = "is_terminal_state" /\ last.result = TRUE
    /\ current_state = STATE_FAILED /\ previous_state = VERIFYING

\* IsTerminalState answers false in Maintaining
C26_NonTerminalWitness ==
    /\ last.op = "is_terminal_state" /\ last.result = FALSE
    /\ current_state = MAINTAINING

\* C27: in every machine state create_audit_event returns a record whose
\* phase is the current phase and whose task id is the id of the in-flight
\* task (none when there is none), and it leaves current phase, previous
\* phase, history and in-flight task unchanged.
C27_AuditProjection ==
    [][last'.op = "create_audit_event" =>
          /\ last'.raised = ""
          /\ Len(last'.result) = 1
          /\ last'.result[1].state = current_state
          /\ last'.result[1].task_id = current_task
          /\ UNCHANGED machine]_vars

---------------------------------------------------------------------------
(* The claims of concurrent use.                                           *)

\* thread w is inside an add_task whose insertion fails
WillRollBack(w) ==
    \/ pc[w].at = "add_task:64"
    \/ pc[w].at \in {"add_task:62", "_has_cycle:235", "dfs:225"} /\ has_cycle(G).found

\* the step is a GetReadyTasks or GetNextTask call
ReaderStep ==
    /\ last'.op \in {"get_ready_tasks", "get_next_task"}
    /\ last'.raised = ""
    /\ \E w \in Workers :
           /\ pc[w].at \in {"outside", "get_ready_tasks:118", "get_ready_tasks:126",
                            "get_ready_tasks:124"}
           /\ pc'[w] = Outside
           /\ \A v \in Workers \ {w} : pc'[v] = pc[v]
    /\ UNCHANGED <<tasks, todo>>

\* C28: when add_task, remove_task and get_blocked_tasks run under a lock
\* that also excludes readers, no GetReadyTasks or GetNextTask call returns
\* a task whose insertion is then rolled back, and the dependency relation
\* of every state such a call observes is acyclic.
C28_LockedAddTask ==
    [][(lock # NoLock /\ ReaderStep) =>
          /\ \A w \in Workers :
                 WillRollBack(w) => ~Contains(last'.result, pc[w].task.id)
          /\ ~HasDepCycle(tasks)]_vars

\* C28, the interleaving without the lock: GetNextTask has returned t2, which
\* the graph did not hold before, while a thread stands between its
\* insertion of t2 and the rollback
C28_RaceWitness ==
    /\ lock = NoLock
    /\ last.op = "get_next_task" /\ last.result = <<"t2">>
    /\ \E w \in Workers :
           /\ pc[w].at = "add_task:64" /\ pc[w].task.id = "t2"
           /\ "replacing" \notin pc[w].warned

\* C28, the first half under the lock alone: no read returns a task whose
\* insertion is then rolled back
C28_NoRolledBackRead ==
    [][(lock # NoLock /\ ReaderStep) =>
          \A w \in Workers :
              WillRollBack(w) => ~Contains(last'.result, pc[w].task.id)]_vars

\* C28, the same without the lock
C28_NoRolledBackReadUnlocked ==
    [][(lock = NoLock /\ ReaderStep) =>
          \A w \in Workers :
              WillRollBack(w) => ~Contains(last'.result, pc[w].task.id)]_vars

\* every record of the history is a pair of the transition table
TableEdgesOnly ==
    \A i \in 1..Len(transition_history) :
        <<transition_history[i].from_state, transition_history[i].to_state>>
            \in AllowedPairs

\* C29: when the Transition calls of the threads are serialized by a mutex,
\* every record appended is a pair of the transition table whose from-phase
\* was the current phase when the call checked it and whose to-phase is the
\* current phase after the append; a record outside the table appears only
\* where the calls interleave without the mutex.
C29_SerializedTransition ==
    /\ [](~TableEdgesOnly => lock = NoLock)
    /\ [][(lock # NoLock /\ Len(transition_history') > Len(transition_history)) =>
             \E w \in Workers :
                 /\ pc[w].at = "transition:106"
                 /\ transition_history' = Append(transition_history, pc[w].record)
                 /\ <<pc[w].record.from_state, pc[w].record.to_state>> \in AllowedPairs
                 /\ pc[w].record.from_state = previous_state
                 /\ pc[w].record.to_state = current_state']_vars
    /\ [][(lock # NoLock /\ \E w \in Workers : pc'[w].at = "transition:104"
                                                  /\ pc[w].at = "transition:97") =>
             \E w \in Workers :
                 /\ pc'[w].at = "transition:104"
                 /\ pc'[w].record.from_state = current_state
                 /\ can_transition(M, pc'[w].record.to_state)]_vars

\* without the mutex two calls Transition(Planning) both pass the check in
\* Idle, and the second appends the record from Planning to Planning
C29_Witness ==
    /\ lock = NoLock
    /\ transition_history = <<StateTransition(IDLE, PLANNING, "manual"),
                               StateTransition(PLANNING, PLANNING, "manual")>>
    /\ <<PLANNING, PLANNING>> \notin AllowedPairs
    /\ last.op = "transition" /\ last.raised = ""

\* with the mutex a thread has appended the fourth record of a walk
C29_SerialWitness ==
    /\ lock = FreeLock
    /\ Len(transition_history) = 4 /\ current_state = VERIFYING
    /\ last.op = "transition" /\ last.raised = ""

\* worker w has been given a task and has not reported on it
Handed(w) == pc[w].at \in {"dispatch:mark", "running"}

\* C30: under the locking discipline no task is handed to two workers: two
\* workers never hold the same task, a task is handed out only while it is
\* pending, and a task that has left pending never returns to it; and no
\* task is running while one of its present dependencies is not completed.
C30_ParallelDispatch ==
    /\ [](lock # NoLock =>
             /\ \A w1, w2 \in Workers :
                    (w1 # w2 /\ Handed(w1) /\ Handed(w2)) => pc[w1].task # pc[w2].task
             /\ \A i \in 1..Len(tasks) :
                    tasks[i].status = RUNNING =>
                        /\ \E w \in Workers : pc[w].at = "running" /\ pc[w].task = tasks[i].id
                        /\ \A k \in 1..Len(tasks[i].dependencies) :
                               HasTask(tasks, tasks[i].dependencies[k]) =>
                                   TaskOf(tasks, tasks[i].dependencies[k]).status = COMPLETED)
    /\ [][lock # NoLock =>
             /\ \A w \in Workers :
                    (~Handed(w) /\ pc'[w].at = "dispatch:mark") =>
                        /\ HasTask(tasks, pc'[w].task)
                        /\ TaskOf(tasks, pc'[w].task).status = PENDING
             /\ \A i \in 1..Len(tasks) :
                    tasks[i].status # PENDING =>
                        /\ HasTask(tasks', tasks[i].id)
                        /\ TaskOf(tasks', tasks[i].id).status # PENDING]_vars

\* under the mutex both workers are running a task each, t2 and t3, after t1
\* on which both depend has been completed
C30_Witness ==
    /\ lock = FreeLock
    /\ HasTask(tasks, "t1") /\ TaskOf(tasks, "t1").status = COMPLETED
    /\ pc["w1"] = [at |-> "running", task |-> "t2"]
    /\ pc["w2"] = [at |-> "running", task |-> "t3"]
    /\ TaskOf(tasks, "t2").dependencies = <<"t1">>
    /\ TaskOf(tasks, "t3").dependencies = <<"t1">>

\* C30, without the mutex: both workers have been handed t1
C30_DoubleDispatch ==
    /\ lock = NoLock
    /\ Handed("w1") /\ Handed("w2")
    /\ pc["w1"].task = "t1" /\ pc["w2"].task = "t1"

\* the step just taken belongs to a read: a thread was or is inside one, or
\* can_transition was called
ReadStep ==
    \/ \E w \in Workers : pc[w] # Outside \/ pc'[w] # Outside
    \/ last'.op = "can_transition" /\ UNCHANGED <<tasks, pc>>

\* thread w returns from its read in the step just taken
Returns(w) == pc[w] # Outside /\ pc'[w] = Outside

\* what the read thread w is inside returns when it runs alone:
\* topological_sort on the graph it met when it began, get_ready_tasks and
\* get_next_task on the stored graph, which no mutator changes while a thread
\* is inside a read
Alone(w) ==
    IF pc[w].at = "topological_sort:196"
    THEN LET r == topological_sort(pc[w].seen)
         IN RetId("topological_sort", "", r.raised, r.result, {})
    ELSE RetId(pc[w].op, "", "",
               IF pc[w].op = "get_ready_tasks" THEN get_ready_tasks(G)
               ELSE get_next_task(G), {})

\* C31: in any interleaving of get_ready_tasks, get_next_task,
\* topological_sort and can_transition with no mutator running, each read
\* returns (or raises) what it returns when run alone, and no step of a read
\* changes the stored tasks, a status, an edge of either index, the current
\* phase or the history.
C31_ReadersPure ==
    [][/\ \A w \in Workers : Returns(w) => last' = Alone(w)
       /\ last'.op \in {"get_ready_tasks", "get_next_task"} /\ UNCHANGED pc
             => last'.result = IF last'.op = "get_ready_tasks" THEN get_ready_tasks(G)
                               ELSE get_next_task(G)
       /\ last'.op = "can_transition" /\ UNCHANGED pc
             => last'.result = can_transition(M, last'.id)
       /\ ReadStep =>
             /\ tasks' = tasks
             /\ AdjContent(adjacency_list') = AdjContent(adjacency_list)
             /\ reverse_adjacency' = reverse_adjacency
             /\ UNCHANGED machine]_vars

\* one thread is in the middle of topological_sort, having followed an edge,
\* while the other is in the middle of get_ready_tasks, having collected a task
C31_Witness ==
    /\ pc["w1"].at = "topological_sort:196"
    /\ Len(pc["w1"].result) = 1 /\ pc["w1"].queue # <<>>
    /\ pc["w2"].at = "get_ready_tasks:118"
    /\ pc["w2"].pos = 2 /\ pc["w2"].found # <<>>
    /\ Len(tasks) = 2
    /\ current_state = PLANNING

\* the task with this id is started in the step just taken
Started(id) ==
    /\ HasTask(tasks, id) /\ TaskOf(tasks, id).status # RUNNING
    /\ HasTask(tasks', id) /\ TaskOf(tasks', id).status = RUNNING

\* C32: a task is never started before every one of its dependencies that is
\* present in the graph at the moment of the start has status completed.
C32_StartAfterDeps ==
    [][\A id \in TaskIds :
          Started(id) =>
              \A k \in 1..Len(TaskOf(tasks, id).dependencies) :
                  HasTask(tasks, TaskOf(tasks, id).dependencies[k]) =>
                      TaskOf(tasks, TaskOf(tasks, id).dependencies[k]).status = COMPLETED]_vars

\* C32, amended: a task is started only while pending, and never before
\* every one of its dependencies that was present in the graph when the read
\* returned it has status completed; if no task has been inserted since that
\* read, these are all its present dependencies.
C32_StartAfterDepsAtRead ==
    [][\A id \in TaskIds :
          Started(id) =>
              /\ TaskOf(tasks, id).status = PENDING
              /\ \A k \in 1..Len(TaskOf(tasks, id).dependencies) :
                    LET dep == TaskOf(tasks, id).dependencies[k]
                    IN  /\ dep \in pc[Driver].present
                           => TaskOf(tasks, dep).status = COMPLETED
                        /\ TaskIdSet(tasks) = pc[Driver].present /\ HasTask(tasks, dep)
                           => TaskOf(tasks, dep).status = COMPLETED]_vars

\* t3, which depends on t1 and t2, is running after both were completed, all
\* three having been present when it was returned
C32_Witness ==
    /\ Len(tasks) = 3
    /\ TaskOf(tasks, "t1").status = COMPLETED
    /\ TaskOf(tasks, "t2").status = COMPLETED
    /\ TaskOf(tasks, "t3").status = RUNNING
    /\ Range(TaskOf(tasks, "t3").dependencies) = {"t1", "t2"}
    /\ pc[Driver].at = "holding" /\ pc[Driver].present = {"t1", "t2", "t3"}

\* the run against C32: t2, which depends on t1, was returned while t1 was
\* absent, t1 was inserted, and t2 is running while t1 is pending
C32_StaleRead ==
    /\ HasTask(tasks, "t1") /\ TaskOf(tasks, "t1").status = PENDING
    /\ HasTask(tasks, "t2") /\ TaskOf(tasks, "t2").status = RUNNING
    /\ TaskOf(tasks, "t2").dependencies = <<"t1">>
    /\ pc[Driver].at = "holding" /\ pc[Driver].present = {"t2"}

\* the driver is inside its loop
InLoop == pc[Driver].at \in {"loop:blocked", "loop:next", "loop:run"}

\* get_next_task returned None to the driver
Stopped == pc[Driver].at = "stopped"

\* C33: the driver's loop over an acyclic, all-pending graph with every
\* dependency present reaches a state where get_next_task returns None, and
\* in that state every task is completed, failed or blocked.
C33_DriverProgress ==
    InLoop ~> (Stopped /\ \A i \in 1..Len(tasks) :
                              tasks[i].status \in {COMPLETED, FAILED, BLOCKED})

\* C33, amended: the loop reaches a state where get_next_task returns None,
\* and in that state every task is completed, failed, blocked, or pending
\* behind a dependency that is blocked or pending: get_blocked_tasks
\* reclassifies the direct dependents of a failed task only.
C33_DriverStops ==
    /\ InLoop ~> Stopped
    /\ [](Stopped =>
            \A i \in 1..Len(tasks) :
                \/ tasks[i].status \in {COMPLETED, FAILED, BLOCKED}
                \/ /\ tasks[i].status = PENDING
                   /\ \E k \in 1..Len(tasks[i].dependencies) :
                         TaskOf(tasks, tasks[i].dependencies[k]).status
                             \in {BLOCKED, PENDING})

\* the loop has stopped on the chain t1, t2 after t1, t3 after t2: t1 failed,
\* t2 is blocked and t3 is still pending
C33_Witness ==
    /\ Stopped
    /\ Len(tasks) = 3
    /\ TaskOf(tasks, "t1").status = FAILED
    /\ TaskOf(tasks, "t2").status = BLOCKED /\ TaskOf(tasks, "t2").dependencies = <<"t1">>
    /\ TaskOf(tasks, "t3").status = PENDING /\ TaskOf(tasks, "t3").dependencies = <<"t2">>

\* the loop has stopped with every task completed
C33_AllCompleted ==
    /\ Stopped
    /\ Len(tasks) = 3
    /\ \A i \in 1..3 : tasks[i].status = COMPLETED

\* the task is pending and every one of its stored dependencies has a
\* status of the set Done
DepsDone(id, Done) ==
    /\ HasTask(tasks, id)
    /\ TaskOf(tasks, id).status = PENDING
    /\ \A k \in 1..Len(TaskOf(tasks, id).dependencies) :
          HasTask(tasks, TaskOf(tasks, id).dependencies[k]) =>
              TaskOf(tasks, TaskOf(tasks, id).dependencies[k]).status \in Done

\* a call of get_ready_tasks returns the task, or a call of
\* get_blocked_tasks returns it and leaves it blocked
ReadyOrBlocked(id) ==
    \/ Contains(get_ready_tasks(G), id)
    \/ /\ Contains(get_blocked_tasks(G).result, id)
       /\ TaskOf(get_blocked_tasks(G).tasks, id).status = BLOCKED

\* the calls just made returned what the operators give
ReadsAgree ==
    /\ last.op = "get_ready_tasks" => last.result = get_ready_tasks(G)
    /\ last.op = "get_blocked_tasks" =>
          /\ last.result = get_blocked_tasks(G).result
          /\ \A k \in 1..Len(last.result) : TaskOf(tasks, last.result[k]).status = BLOCKED

\* C34: whenever every present dependency of a pending task has a terminal
\* status (completed, failed or skipped), the task is returned by
\* get_ready_tasks or reclassified and returned by get_blocked_tasks.
C34_NoLimbo ==
    /\ ReadsAgree
    /\ \A id \in TaskIds : DepsDone(id, {COMPLETED, FAILED, SKIPPED}) => ReadyOrBlocked(id)

\* C34, amended: whenever every present dependency of a pending task is
\* completed or failed, the task is returned by get_ready_tasks (none failed)
\* or reclassified and returned by get_blocked_tasks (one failed); a skipped
\* dependency leaves it pending, returned by neither.
C34_NoLimboFinished ==
    /\ ReadsAgree
    /\ \A id \in TaskIds :
          /\ DepsDone(id, {COMPLETED, FAILED}) => ReadyOrBlocked(id)
          /\ /\ DepsDone(id, {COMPLETED, FAILED, SKIPPED})
             /\ ~DepsDone(id, {COMPLETED, FAILED})
             /\ ~has_failed_dep(tasks, TaskOf(tasks, id))
             => ~ReadyOrBlocked(id)

\* get_blocked_tasks has just reclassified t3, whose dependencies t1 and t2
\* are completed and failed
C34_Witness ==
    /\ last.op = "get_blocked_tasks" /\ last.result = <<"t3">>
    /\ Len(tasks) = 3
    /\ TaskOf(tasks, "t1").status = COMPLETED
    /\ TaskOf(tasks, "t2").status = FAILED
    /\ Range(TaskOf(tasks, "t3").dependencies) = {"t1", "t2"}

\* the run against C34: t2 is pending behind the skipped t1 and
\* get_ready_tasks has just returned nothing
C34_SkippedLimbo ==
    /\ last.op = "get_ready_tasks" /\ last.result = <<>>
    /\ Len(tasks) = 2
    /\ TaskOf(tasks, "t1").status = SKIPPED
    /\ TaskOf(tasks, "t2").status = PENDING /\ TaskOf(tasks, "t2").dependencies = <<"t1">>
    /\ get_blocked_tasks(G).result = <<>>

\* the record stored under id before and after the step just taken is the
\* same object: the step is not an insertion under this id, which stores
\* the caller's record
SameRecord(id) ==
    /\ HasTask(tasks, id) /\ HasTask(tasks', id)
    /\ ~(last'.op = "add_task" /\ last'.id = id)

\* C35: of the graph's operations only get_blocked_tasks changes the status
\* of a stored task, and only from pending, running or blocked to blocked;
\* add_task, remove_task, get_ready_tasks, get_next_task, topological_sort,
\* validate, get_progress and is_complete change no status.  (The status
\* writes of the driver are not the graph's.)
C35_StatusWrites ==
    [][last'.op # "set_status" =>
          \A id \in TaskIds :
              (SameRecord(id) /\ TaskOf(tasks', id).status # TaskOf(tasks, id).status) =>
                  /\ last'.op = "get_blocked_tasks"
                  /\ TaskOf(tasks, id).status \in {PENDING, RUNNING}
                  /\ TaskOf(tasks', id).status = BLOCKED
                  /\ Contains(last'.result, id)]_vars

\* get_blocked_tasks has just reclassified the running t2, which depends on
\* the failed t1
C35_Witness ==
    /\ last.op = "get_blocked_tasks" /\ last.result = <<"t2">>
    /\ Len(tasks) = 2
    /\ TaskOf(tasks, "t1").status = FAILED
    /\ TaskOf(tasks, "t2").status = BLOCKED /\ ~TaskOf(tasks, "t2").status_is_str
    /\ TaskOf(tasks, "t2").dependencies = <<"t1">>

\* C36: immediately after any get_blocked_tasks call, also one made after a
\* failed dependency was reset, a task has status blocked if and only if the
\* call returned it, that is if and only if it is not completed, failed or
\* skipped and has a present dependency with status failed.
C36_BlockedRecomputed ==
    last.op = "get_blocked_tasks" =>
        \A id \in Present :
            /\ StatusOf(id) = BLOCKED <=> Contains(last.result, id)
            /\ Contains(last.result, id) <=> (NonTerminal(id) /\ HasFailedDep(id))

\* the run against C36: t2 was blocked behind the failed t1, t1 was reset to
\* pending, and the get_blocked_tasks call just made returned nothing and
\* left t2 blocked
C36_StickyBlocked ==
    /\ last.op = "get_blocked_tasks" /\ last.result = <<>>
    /\ Present = {"t1", "t2"}
    /\ DepsOf("t2") = {"t1"}
    /\ StatusOf("t1") = PENDING
    /\ StatusOf("t2") = BLOCKED

\* C37: when a set of tasks whose dependency lists form a cycle is inserted
\* into an empty graph in any order, an add_task succeeds as long as no
\* cycle of the set has all its tasks present, and the add_task that makes
\* all tasks of a cycle present raises DAGCycleError.
C37_CycleOnCompletion ==
    [][\A t \in todo :
          todo' = todo \ {t} =>
              /\ last'.op = "add_task" /\ last'.id = t.id
              /\ last'.raised = (IF HasDepCycle(Append(tasks, t))
                                 THEN "DAGCycleError" ELSE "")]_vars

\* the test's case: t1 depending on the absent t2 was accepted with a
\* warning, then t2 depending on t1 was rejected
C37_Witness ==
    /\ last.op = "add_task" /\ last.id = "t2" /\ last.raised = "DAGCycleError"
    /\ Len(tasks) = 1 /\ tasks[1].id = "t1" /\ tasks[1].dependencies = <<"t2">>
    /\ todo = {}

\* a cycle of three, t1 after t3, t2 after t1, t3 after t2, was completed by
\* the third insertion, which was rejected
C37_ThreeCycle ==
    /\ last.op = "add_task" /\ last.id = "t3" /\ last.raised = "DAGCycleError"
    /\ Len(tasks) = 2
    /\ HasTask(tasks, "t1") /\ TaskOf(tasks, "t1").dependencies = <<"t3">>
    /\ HasTask(tasks, "t2") /\ TaskOf(tasks, "t2").dependencies = <<"t1">>

\* the id appears nowhere in either index: not as a key, not in a list
NotIndexed(adj, rev, id) ==
    /\ id \notin DOMAIN adj
    /\ ~RevHas(rev, id)
    /\ \A k \in DOMAIN adj : ~Contains(adj[k], id)
    /\ \A i \in 1..Len(rev) : ~Contains(rev[i].v, id)

\* C38: after any sequence of add_task (also under an id already stored, and
\* rolled back) and remove_task, t is in the forward list of d as many times
\* as d is in the reverse list of t, and when remove_task has removed a
\* task neither index holds an entry for it.
C38_IndexesMirror ==
    /\ [](\A t \in TaskIds, d \in TaskIds :
             Occurrences(AdjContent(adjacency_list)[d], t)
                 = Occurrences(RevContent(reverse_adjacency)[t], d))
    /\ [][(last'.op = "remove_task" /\ HasTask(tasks, last'.id)) =>
             NotIndexed(adjacency_list', reverse_adjacency', last'.id)]_vars

\* the run against C38: t1 was inserted twice with the dependency t2 and
\* then removed; the forward list of t2 still holds t1, which has no
\* reverse list
C38_StaleForward ==
    /\ last.op = "remove_task" /\ last.id = "t1"
    /\ tasks = <<>>
    /\ AdjContent(adjacency_list)["t2"] = <<"t1">>
    /\ ~RevHas(reverse_adjacency, "t1")

\* C39: after any sequence of Transition and Reset calls the previous phase
\* is None exactly when the history is empty, and otherwise is the
\* from-phase of the last record; Reset changes neither the previous phase
\* nor the history.
C39_PreviousPhase ==
    /\ [](/\ previous_state = NoState <=> transition_history = <<>>
          /\ transition_history # <<>> =>
                previous_state = transition_history[Len(transition_history)].from_state)
    /\ [][last'.op = "reset" =>
             /\ previous_state' = previous_state
             /\ transition_history' = transition_history]_vars

\* after Idle, Planning, Scaffolding a Reset was made: the machine is in
\* Idle, the previous phase is still Planning and the history has both records
C39_Witness ==
    /\ last.op = "reset"
    /\ current_state = IDLE
    /\ previous_state = PLANNING
    /\ Len(transition_history) = 2
    /\ transition_history[2] = StateTransition(PLANNING, SCAFFOLDING, "manual")

\* a Reset was made on a machine that never made a transition: the previous
\* phase is None and the history is empty
C39_FreshReset ==
    /\ last.op = "reset"
    /\ previous_state = NoState
    /\ transition_history = <<>>

=============================================================================
